---- MODULE Spec2Model ----
(***************************************************************************)
(* The two-stage CP-SAT shift scheduler of src/solver: the constraints     *)
(* that Stage1Solver.setup / Stage2Solver.setup post on the Boolean grid   *)
(* shift_vars[(s_idx, d, sh_idx)], the solver call, and the K-best loop    *)
(* solve_multi with its no-good cuts.                                      *)
(*                                                                         *)
(* A value of the decision grid is a function x from the cells <<s, d>>    *)
(* to the set of shift indices sh whose variable shift_vars[(s, d, sh)] is *)
(* 1.  Indices are 1-based here (0-based in the source); the order of the  *)
(* alphabet is the source's.                                               *)
(***************************************************************************)
EXTENDS Integers, Sequences, FiniteSets, TLC

\* config/constants.py.  SHIFT_PUBLIC_OFF is a one-character CJK code in the
\* source; "PUB" stands for it here.
SHIFT_OFF == "-"
SHIFT_PUBLIC_OFF == "PUB"

\* SolverResult.df = None (base_solver.py:65), and "no Stage-1 table" in a
\* Stage-1 call.
NoDf == <<>>

VARIABLES
    input,        \* SolverInput given to setup
    constraints,  \* List[Constraint] given to setup
    stage,        \* 1: Stage1Solver, 2: Stage2Solver
    entry,        \* "single": solve_stageN, "multi": solve_stageN_multi
    k,            \* the k of solve_multi
    stage1_df,    \* the selected Stage-1 table given to Stage2Solver.setup
    pc,           \* "new" -> "loop" -> "done"
    model,        \* self.model after setup: its solutions with their objective
    cuts,         \* the no-good clauses add_nogood_cut has added to self.model
    i,            \* loop index of solve_multi
    results,      \* the list solve_multi builds / the result solve_stageN returns
    calls         \* the result of every self.solve() call so far

vars == <<input, constraints, stage, entry, k, stage1_df, pc, model, cuts, i,
          results, calls>>

-----------------------------------------------------------------------------
(* Python helpers *)

Range(seq) == {seq[j] : j \in DOMAIN seq}

Abs(n) == IF n < 0 THEN -n ELSE n

RECURSIVE SumFn(_, _)
SumFn(f, S) ==
    IF S = {} THEN 0
    ELSE LET e == CHOOSE e \in S : TRUE IN f[e] + SumFn(f, S \ {e})

Min(S) == CHOOSE m \in S : \A n \in S : m <= n

\* dict.get(key, default)
Get(dict, key, default) == IF key \in DOMAIN dict THEN dict[key] ELSE default

\* shift_to_idx = {s: i for i, s in enumerate(all_shifts)}: the last index wins
InShifts(all_shifts, code) == \E j \in DOMAIN all_shifts : all_shifts[j] = code

ShiftToIdx(all_shifts, code) ==
    CHOOSE j \in DOMAIN all_shifts :
        /\ all_shifts[j] = code
        /\ \A j2 \in DOMAIN all_shifts : all_shifts[j2] = code => j2 <= j

\* [shift_to_idx[c] for c in codes if c in shift_to_idx]
Indices(all_shifts, codes) ==
    {ShiftToIdx(all_shifts, c) : c \in {c \in codes : InShifts(all_shifts, c)}}

\* off_indices = [shift_to_idx.get(SHIFT_OFF), shift_to_idx.get(SHIFT_PUBLIC_OFF)]
OffIndices(all_shifts) == Indices(all_shifts, {SHIFT_OFF, SHIFT_PUBLIC_OFF})

\* StaffInfo.has_skill
has_skill(staff, skill) == skill \in staff.skills

\* StaffInfo.can_night
can_night(staff) == "NIGHT" \in staff.skills

Staff(staff_list) == 1..Len(staff_list)
Days(num_days) == 1..num_days

\* create_shift_variables: one Boolean per (s_idx, d, sh_idx)
Cells(staff_list, num_days) == Staff(staff_list) \X Days(num_days)

\* self.solver.Value(self.shift_vars[(s_idx, d, sh_idx)])
Value(x, s, d, sh) == IF sh \in x[<<s, d>>] THEN 1 ELSE 0

\* sum(self.shift_vars[(s_idx, d, j)] for j in idxs)
SumVars(x, s, d, idxs) == Cardinality(x[<<s, d>>] \cap idxs)

\* sum(self.shift_vars[(s_idx, d, j)] for d in range(1, num_days + 1) for j in idxs)
CountOver(x, s, num_days, idxs) ==
    SumFn([d \in Days(num_days) |-> SumVars(x, s, d, idxs)], Days(num_days))

\* the reified is_working literal: is_working <=> sum(off_vars) == 0; without
\* any off variable the literal is free and the solver may set it to 0
IsWorking(x, s, d, off_indices) ==
    IF off_indices = {} THEN 0
    ELSE IF SumVars(x, s, d, off_indices) = 0 THEN 1 ELSE 0

-----------------------------------------------------------------------------
(* solver/base_solver.py: the constraints of BaseSolver *)

\* a weaker cell constraint: AddAtMostOne(day_vars)
AddAtMostOne(true_vars) == Cardinality(true_vars) <= 1

\* model.AddExactlyOne(day_vars), on the set of day_vars that are 1
AddExactlyOne(true_vars) == Cardinality(true_vars) = 1

add_exactly_one_shift_per_day(x, staff_list, num_days, all_shifts) ==
    \A s \in Staff(staff_list), d \in Days(num_days) :
        AddExactlyOne(x[<<s, d>>] \cap DOMAIN all_shifts)

\* the skill check applied to L1 only: the night entries of skill_map are lost
add_skill_constraints_l1_only(x, staff_list, num_days, all_shifts, skill_map) ==
    \A s \in Staff(staff_list), d \in Days(num_days), sh \in DOMAIN all_shifts :
        (/\ all_shifts[sh] = "L1"
         /\ all_shifts[sh] \in DOMAIN skill_map
         /\ ~has_skill(staff_list[s], skill_map[all_shifts[sh]]))
        => Value(x, s, d, sh) = 0

add_skill_constraints(x, staff_list, num_days, all_shifts, skill_map) ==
    \A s \in Staff(staff_list), d \in Days(num_days), sh \in DOMAIN all_shifts :
        (/\ all_shifts[sh] \in DOMAIN skill_map
         /\ ~has_skill(staff_list[s], skill_map[all_shifts[sh]]))
        => Value(x, s, d, sh) = 0

\* the NG map left to the rule "forbidden", whose builder is "pass"
add_ng_constraints_pass(x, staff_list, num_days, all_shifts, ng_shifts) == TRUE

add_ng_constraints(x, staff_list, num_days, all_shifts, ng_shifts) ==
    \A s \in Staff(staff_list) :
        LET staff_ng == Get(ng_shifts, staff_list[s].name, <<>>) IN
        \A d \in DOMAIN staff_ng :
            (1 <= d /\ d <= num_days) =>
                \A ng_shift \in staff_ng[d] :
                    InShifts(all_shifts, ng_shift) =>
                        Value(x, s, d, ShiftToIdx(all_shifts, ng_shift)) = 0

\* penalty = 1 <=> the requested variable is 0; weight per missed request
add_request_soft_constraints(x, staff_list, num_days, all_shifts, requests, weight) ==
    SumFn([s \in Staff(staff_list) |->
            LET staff_req == Get(requests, staff_list[s].name, <<>>) IN
            SumFn([d \in DOMAIN staff_req |->
                    IF /\ 1 <= d /\ d <= num_days
                       /\ InShifts(all_shifts, staff_req[d])
                    THEN weight *
                         (1 - Value(x, s, d, ShiftToIdx(all_shifts, staff_req[d])))
                    ELSE 0],
                  DOMAIN staff_req)],
          Staff(staff_list))

\* a weaker rest rule: the day after a night shift is OFF or PUB_OFF
add_night_rest_constraint(x, staff_list, num_days, all_shifts, night_shifts) ==
    LET off_indices == OffIndices(all_shifts)
        night_indices == Indices(all_shifts, Range(night_shifts))
    IN \A s \in Staff(staff_list), d \in 1..(num_days - 1), n_idx \in night_indices :
           Value(x, s, d, n_idx) = 1 => SumVars(x, s, d + 1, off_indices) >= 1

add_night_off_constraint(x, staff_list, num_days, all_shifts, night_shifts) ==
    InShifts(all_shifts, SHIFT_OFF) =>
        LET off_idx == ShiftToIdx(all_shifts, SHIFT_OFF)
            night_indices == Indices(all_shifts, Range(night_shifts))
        IN \A s \in Staff(staff_list), d \in 1..(num_days - 1), n_idx \in night_indices :
               Value(x, s, d, n_idx) = 1 => Value(x, s, d + 1, off_idx) = 1

\* a limit of max_consecutive + 1 worked days in max_consecutive + 2 days
add_consecutive_work_limit_loose(x, staff_list, num_days, all_shifts, max_consecutive) ==
    LET off_indices == OffIndices(all_shifts) IN
    \A s \in Staff(staff_list), start_d \in 1..(num_days - max_consecutive - 1) :
        LET window == start_d..(start_d + max_consecutive + 1) IN
        SumFn([d \in window |-> IsWorking(x, s, d, off_indices)], window)
            <= max_consecutive + 1

\* a limit that is never posted
add_consecutive_work_limit_skipped(x, staff_list, num_days, all_shifts, max_consecutive) == TRUE

add_consecutive_work_limit(x, staff_list, num_days, all_shifts, max_consecutive) ==
    LET off_indices == OffIndices(all_shifts) IN
    \A s \in Staff(staff_list), start_d \in 1..(num_days - max_consecutive) :
        LET window == {d \in start_d..(start_d + max_consecutive) : d <= num_days} IN
        Cardinality(window) = max_consecutive + 1 =>
            SumFn([d \in window |-> IsWorking(x, s, d, off_indices)], window)
                <= max_consecutive

\* off_count of one staff member
OffCount(x, s, num_days, all_shifts) ==
    CountOver(x, s, num_days, OffIndices(all_shifts))

\* deviation = NewIntVar(0, num_days); AddAbsEquality(deviation, off_count - target):
\* the domain of deviation is a constraint of the model
add_target_off_soft_constraint_domain(x, staff_list, num_days, all_shifts) ==
    \A s \in Staff(staff_list) :
        Abs(OffCount(x, s, num_days, all_shifts) - staff_list[s].target_off)
            <= num_days

add_target_off_soft_constraint(x, staff_list, num_days, all_shifts, weight) ==
    SumFn([s \in Staff(staff_list) |->
            weight * Abs(OffCount(x, s, num_days, all_shifts)
                         - staff_list[s].target_off)],
          Staff(staff_list))

-----------------------------------------------------------------------------
(* models/constraint.py: Constraint *)

\* weight = constraint.penalty_weight if constraint.is_soft() else None
None == -1

Truthy(n) == n # None /\ n # 0

is_soft(constraint) == constraint.constraint_type = "soft"

get_rule_type(constraint) == Get(constraint.rule_definition, "type", "basic")

get_rule(constraint) == Get(constraint.rule_definition, "rule", <<>>)

\* a value that is not a dict (None, the JSON null): v.get raises AttributeError
JsonNull == [NoneType |-> TRUE]

\* v is a dict, v.get(key, default) returns
HasGet(v) == "NoneType" \notin DOMAIN v

\* rule.get(key) is truthy, for a number / a string / a list / a bool
GetNum(rule, key) == key \in DOMAIN rule /\ rule[key] # 0
GetStr(rule, key) == key \in DOMAIN rule /\ rule[key] # ""
GetBool(rule, key) == key \in DOMAIN rule /\ rule[key]

-----------------------------------------------------------------------------
(* solver/constraint_builder.py: ConstraintBuilder *)

_build_sequence_constraint(x, constraint, staff_list, num_days, all_shifts, night_shifts) ==
    LET rule == get_rule(constraint)
        after_shifts == Get(rule, "after_shifts", night_shifts)
        next_day_must_be == Get(rule, "next_day_must_be", <<SHIFT_OFF>>)
        after_indices == Indices(all_shifts, Range(after_shifts))
        must_indices == Indices(all_shifts, Range(next_day_must_be))
    IN (after_indices # {} /\ must_indices # {}) =>
        \A s \in Staff(staff_list), d \in 1..(num_days - 1), a_idx \in after_indices :
            Value(x, s, d, a_idx) = 1 => SumVars(x, s, d + 1, must_indices) >= 1

\* an off-by-one window bound: W + 1 working days pass
_build_rolling_window_off_by_one(x, constraint, staff_list, num_days, all_shifts) ==
    LET rule == get_rule(constraint)
        max_consecutive == Get(rule, "max_consecutive_work_days", 5)
        off_indices == OffIndices(all_shifts)
    IN \A s \in Staff(staff_list), start_d \in 1..(num_days - max_consecutive) :
        LET window_days == {d \in start_d..(start_d + max_consecutive) : d <= num_days}
        IN SumFn([d \in window_days |-> IsWorking(x, s, d, off_indices)], window_days)
               <= max_consecutive + 1

_build_rolling_window_constraint(x, constraint, staff_list, num_days, all_shifts) ==
    LET rule == get_rule(constraint)
        max_consecutive == Get(rule, "max_consecutive_work_days", 5)
        off_indices == OffIndices(all_shifts)
    IN \A s \in Staff(staff_list), start_d \in 1..(num_days - max_consecutive) :
        LET last == IF start_d + max_consecutive + 1 < num_days + 1
                    THEN start_d + max_consecutive + 1 ELSE num_days + 1
            window_days == start_d..(last - 1)
        IN Cardinality(window_days) > max_consecutive =>
            SumFn([d \in window_days |-> IsWorking(x, s, d, off_indices)], window_days)
                <= max_consecutive

_build_basic_constraint(x, constraint, staff_list, num_days, all_shifts) ==
    GetBool(get_rule(constraint), "exactly_one_shift_per_day") =>
        \A s \in Staff(staff_list), d \in Days(num_days) :
            AddExactlyOne(x[<<s, d>>] \cap DOMAIN all_shifts)

_build_skill_constraint(x, constraint, staff_list, num_days, all_shifts) ==
    LET skill_map == Get(get_rule(constraint), "shift_skill_map", <<>>) IN
    \A s \in Staff(staff_list), shift_code \in DOMAIN skill_map :
        (/\ InShifts(all_shifts, shift_code)
         /\ ~has_skill(staff_list[s], skill_map[shift_code]))
        => \A d \in Days(num_days) :
               Value(x, s, d, ShiftToIdx(all_shifts, shift_code)) = 0

\* "pass": the NG map is handled by add_ng_constraints
_build_forbidden_constraint(x, constraint, staff_list, num_days, all_shifts) == TRUE

\* sum(working_staff) of day d.  Without any excluded variable every
\* is_working literal is free: the solver sets them all to 1.
WorkingStaff(x, staff_list, d, exclude_indices) ==
    IF exclude_indices = {} THEN Len(staff_list)
    ELSE Cardinality({s \in Staff(staff_list) : SumVars(x, s, d, exclude_indices) = 0})

\* the least shortage >= min_staff - sum(working_staff), >= 0
Shortage(min_staff, working) == IF min_staff - working > 0 THEN min_staff - working ELSE 0

_add_min_coverage(x, staff_list, num_days, all_shifts, min_staff, exclude_shifts, weight) ==
    LET exclude_indices == Indices(all_shifts, Range(exclude_shifts)) IN
    \A d \in Days(num_days) :
        LET working == WorkingStaff(x, staff_list, d, exclude_indices) IN
        IF Truthy(weight)
        THEN Shortage(min_staff, working) <= Len(staff_list)  \* NewIntVar(0, len(staff_list))
        ELSE working >= min_staff

_add_min_coverage_penalty(x, staff_list, num_days, all_shifts, min_staff, exclude_shifts, weight) ==
    LET exclude_indices == Indices(all_shifts, Range(exclude_shifts)) IN
    IF Truthy(weight)
    THEN SumFn([d \in Days(num_days) |->
                 weight * Shortage(min_staff,
                                   WorkingStaff(x, staff_list, d, exclude_indices))],
               Days(num_days))
    ELSE 0

\* sum(self.shift_vars[(s_idx, d, j)] for s_idx in range(len(staff_list)) for j in idxs)
ShiftCount(x, staff_list, d, idxs) ==
    SumFn([s \in Staff(staff_list) |-> SumVars(x, s, d, idxs)], Staff(staff_list))

_add_exact_shift_coverage(x, staff_list, num_days, all_shifts, shift_code, count, weight) ==
    InShifts(all_shifts, shift_code) =>
        LET sh_idx == ShiftToIdx(all_shifts, shift_code) IN
        \A d \in Days(num_days) :
            LET shift_count == ShiftCount(x, staff_list, d, {sh_idx}) IN
            IF Truthy(weight)
            THEN Abs(shift_count - count) <= Len(staff_list)  \* NewIntVar(0, len(staff_list))
            ELSE shift_count = count

_add_exact_shift_coverage_penalty(x, staff_list, num_days, all_shifts, shift_code, count, weight) ==
    IF InShifts(all_shifts, shift_code) /\ Truthy(weight)
    THEN LET sh_idx == ShiftToIdx(all_shifts, shift_code) IN
         SumFn([d \in Days(num_days) |->
                 weight * Abs(ShiftCount(x, staff_list, d, {sh_idx}) - count)],
               Days(num_days))
    ELSE 0

_add_closed_day_night_coverage(x, staff_list, num_days, all_shifts, night_shifts, night_count, weight, closed_days) ==
    LET night_indices == Indices(all_shifts, Range(night_shifts)) IN
    \A d \in Range(closed_days) :
        (1 <= d /\ d <= num_days) =>
            LET night_staff_count == ShiftCount(x, staff_list, d, night_indices) IN
            IF Truthy(weight)
            THEN Abs(night_staff_count - night_count) <= Len(staff_list)
            ELSE night_staff_count = night_count

_add_closed_day_night_coverage_penalty(x, staff_list, num_days, all_shifts, night_shifts, night_count, weight, closed_days) ==
    LET night_indices == Indices(all_shifts, Range(night_shifts))
        closed == {d \in Range(closed_days) : 1 <= d /\ d <= num_days}
    IN IF Truthy(weight)
       THEN SumFn([d \in closed |->
                    weight * Abs(ShiftCount(x, staff_list, d, night_indices) - night_count)],
                  closed)
       ELSE 0

_build_coverage_constraint(x, constraint, staff_list, num_days, all_shifts, night_shifts, weight, closed_days) ==
    LET rule == get_rule(constraint) IN
    /\ GetNum(rule, "min_staff_per_day") =>
           _add_min_coverage(x, staff_list, num_days, all_shifts,
                             Get(rule, "min_staff_per_day", 3),
                             Get(rule, "exclude_shifts", <<SHIFT_OFF, SHIFT_PUBLIC_OFF>>),
                             weight)
    /\ (GetStr(rule, "shift_code") /\ GetNum(rule, "exactly_per_day")) =>
           _add_exact_shift_coverage(x, staff_list, num_days, all_shifts,
                                     rule["shift_code"], rule["exactly_per_day"], weight)
    /\ (GetBool(rule, "on_closed_days") /\ GetNum(rule, "night_shift_count")) =>
           _add_closed_day_night_coverage(x, staff_list, num_days, all_shifts,
                                          night_shifts, Get(rule, "night_shift_count", 2),
                                          weight, closed_days)

_build_coverage_constraint_penalty(x, constraint, staff_list, num_days, all_shifts, night_shifts, weight, closed_days) ==
    LET rule == get_rule(constraint) IN
      (IF GetNum(rule, "min_staff_per_day")
       THEN _add_min_coverage_penalty(x, staff_list, num_days, all_shifts,
                Get(rule, "min_staff_per_day", 3),
                Get(rule, "exclude_shifts", <<SHIFT_OFF, SHIFT_PUBLIC_OFF>>), weight)
       ELSE 0)
    + (IF GetStr(rule, "shift_code") /\ GetNum(rule, "exactly_per_day")
       THEN _add_exact_shift_coverage_penalty(x, staff_list, num_days, all_shifts,
                rule["shift_code"], rule["exactly_per_day"], weight)
       ELSE 0)
    + (IF GetBool(rule, "on_closed_days") /\ GetNum(rule, "night_shift_count")
       THEN _add_closed_day_night_coverage_penalty(x, staff_list, num_days, all_shifts,
                night_shifts, Get(rule, "night_shift_count", 2), weight, closed_days)
       ELSE 0)

\* weight or default: the default replaces None and 0
WeightOr(weight, default) == IF Truthy(weight) THEN weight ELSE default

\* the length of the month; 0 for a month date() rejects
DaysInMonth(year, month) ==
    CASE month \in {1, 3, 5, 7, 8, 10, 12} -> 31
      [] month \in {4, 6, 9, 11} -> 30
      [] month = 2 -> IF (year % 4 = 0 /\ year % 100 # 0) \/ year % 400 = 0
                      THEN 29 ELSE 28
      [] OTHER -> 0

\* date(year, month, d) does not raise ValueError
ValidDate(year, month, d) == 1 <= d /\ d <= DaysInMonth(year, month)

\* date(year, month, d).weekday(): Monday is 0, Saturday 5, Sunday 6
weekday(year, month, d) ==
    LET t == <<0, 3, 2, 5, 0, 3, 5, 1, 4, 6, 2, 4>>
        y == IF month < 3 THEN year - 1 ELSE year
        dow == (y + (y \div 4) - (y \div 100) + (y \div 400) + t[month] + d) % 7
    IN (dow + 6) % 7

\* the Saturdays of the weekend pairs (sat, sat + 1) inside the horizon
Weekends(solver_input, num_days) ==
    {d \in 1..num_days :
        /\ ValidDate(solver_input.year, solver_input.month, d)
        /\ weekday(solver_input.year, solver_input.month, d) = 5
        /\ d + 1 <= num_days}

\* weekend_days: the Saturdays and Sundays of the horizon
WeekendDays(solver_input, num_days) ==
    {d \in 1..num_days :
        /\ ValidDate(solver_input.year, solver_input.month, d)
        /\ weekday(solver_input.year, solver_input.month, d) >= 5}

\* split_penalty of one staff member and one weekend: exactly one of the two
\* days is off
SplitWeekend(x, s, sat, off_indices) ==
    IF (SumVars(x, s, sat, off_indices) >= 1) # (SumVars(x, s, sat + 1, off_indices) >= 1)
    THEN 1 ELSE 0

\* _add_weekend_preference: weight * split_penalty per staff member and weekend;
\* the literals it creates are defined by the assignment and exclude nothing
_add_weekend_preference_penalty(x, staff_list, num_days, all_shifts, weight, solver_input) ==
    LET off_indices == OffIndices(all_shifts)
        cells == Staff(staff_list) \X Weekends(solver_input, num_days)
    IN IF off_indices = {} THEN 0
       ELSE SumFn([c \in cells |-> weight * SplitWeekend(x, c[1], c[2], off_indices)],
                  cells)

\* _build_preference_constraint posts no constraint that excludes an assignment;
\* the key maximize_request_satisfaction is not read
_build_preference_constraint(x, constraint, staff_list, num_days, all_shifts) == TRUE

_build_preference_constraint_penalty(x, constraint, staff_list, num_days, all_shifts, weight, solver_input) ==
    IF GetBool(get_rule(constraint), "prefer_full_weekend_off_or_work")
    THEN _add_weekend_preference_penalty(x, staff_list, num_days, all_shifts,
                                         WeightOr(weight, 10000), solver_input)
    ELSE 0

\* weekend_work_counts[s] * len(staff_list) - total, in absolute value
WeekendBalanceDeviation(x, staff_list, s, all_shifts, weekend_days) ==
    LET off_indices == OffIndices(all_shifts)
        count(t) == IF off_indices = {} THEN 0
                    ELSE Cardinality({d \in weekend_days :
                                        SumVars(x, t, d, off_indices) = 0})
    IN Abs(count(s) * Len(staff_list)
           - SumFn([t \in Staff(staff_list) |-> count(t)], Staff(staff_list)))

\* _add_weekend_balance: deviation = NewIntVar(0, len(weekend_days))
_add_weekend_balance(x, staff_list, num_days, all_shifts, solver_input) ==
    LET weekend_days == WeekendDays(solver_input, num_days) IN
    weekend_days # {} =>
        \A s \in Staff(staff_list) :
            WeekendBalanceDeviation(x, staff_list, s, all_shifts, weekend_days)
                <= Cardinality(weekend_days)

_add_weekend_balance_penalty(x, staff_list, num_days, all_shifts, weight, solver_input) ==
    LET weekend_days == WeekendDays(solver_input, num_days) IN
    IF weekend_days = {} THEN 0
    ELSE SumFn([s \in Staff(staff_list) |->
                 (weight \div Len(staff_list))
                 * WeekendBalanceDeviation(x, staff_list, s, all_shifts, weekend_days)],
               Staff(staff_list))

\* rule.get(key) is truthy, for a list
GetSeq(rule, key) == key \in DOMAIN rule /\ rule[key] # <<>>

\* _add_target_off_balance: deviation = NewIntVar(0, num_days) with
\* AddAbsEquality(deviation, off_count - target): the domain is a constraint
_add_target_off_balance(x, staff_list, num_days, all_shifts) ==
    \A s \in Staff(staff_list) :
        Abs(CountOver(x, s, num_days, OffIndices(all_shifts)) - staff_list[s].target_off)
            <= num_days

_add_target_off_balance_penalty(x, staff_list, num_days, all_shifts, weight) ==
    SumFn([s \in Staff(staff_list) |->
            weight * Abs(CountOver(x, s, num_days, OffIndices(all_shifts))
                         - staff_list[s].target_off)],
          Staff(staff_list))

\* eligible_staff of _add_shift_balance, {} when the term is not posted
EligibleStaff(staff_list, all_shifts, shifts_to_balance, rule) ==
    LET balance_indices == Indices(all_shifts, Range(shifts_to_balance))
        eligible_staff == {s \in Staff(staff_list) :
                              "among_staff_with_skill" \in DOMAIN rule =>
                                  has_skill(staff_list[s], rule["among_staff_with_skill"])}
    IN IF balance_indices = {} \/ Cardinality(eligible_staff) < 2 THEN {}
       ELSE eligible_staff

\* shift_counts[s] * len(eligible_staff) - total, in absolute value
ShiftBalanceDeviation(x, eligible_staff, s, num_days, balance_indices) ==
    Abs(CountOver(x, s, num_days, balance_indices) * Cardinality(eligible_staff)
        - SumFn([t \in eligible_staff |-> CountOver(x, t, num_days, balance_indices)],
                eligible_staff))

\* _add_shift_balance: deviation = NewIntVar(0, num_days)
_add_shift_balance(x, staff_list, num_days, all_shifts, shifts_to_balance, rule) ==
    LET balance_indices == Indices(all_shifts, Range(shifts_to_balance))
        eligible_staff == EligibleStaff(staff_list, all_shifts, shifts_to_balance, rule)
    IN \A s \in eligible_staff :
          ShiftBalanceDeviation(x, eligible_staff, s, num_days, balance_indices)
              <= num_days

_add_shift_balance_penalty(x, staff_list, num_days, all_shifts, shifts_to_balance, rule, weight) ==
    LET balance_indices == Indices(all_shifts, Range(shifts_to_balance))
        eligible_staff == EligibleStaff(staff_list, all_shifts, shifts_to_balance, rule)
    IN SumFn([s \in eligible_staff |->
               (weight \div Cardinality(eligible_staff))
               * ShiftBalanceDeviation(x, eligible_staff, s, num_days, balance_indices)],
             eligible_staff)

_build_balance_constraint(x, constraint, staff_list, num_days, all_shifts, solver_input) ==
    LET rule == get_rule(constraint) IN
    /\ GetStr(rule, "target_off_days_field") =>
           _add_target_off_balance(x, staff_list, num_days, all_shifts)
    /\ GetSeq(rule, "balance_shifts") =>
           _add_shift_balance(x, staff_list, num_days, all_shifts,
                              rule["balance_shifts"], rule)
    /\ GetBool(rule, "balance_weekend_work") =>
           _add_weekend_balance(x, staff_list, num_days, all_shifts, solver_input)

_build_balance_constraint_penalty(x, constraint, staff_list, num_days, all_shifts, weight, solver_input) ==
    LET rule == get_rule(constraint) IN
      (IF GetStr(rule, "target_off_days_field")
       THEN _add_target_off_balance_penalty(x, staff_list, num_days, all_shifts,
                                            WeightOr(weight, 30000))
       ELSE 0)
    + (IF GetSeq(rule, "balance_shifts")
       THEN _add_shift_balance_penalty(x, staff_list, num_days, all_shifts,
                                       rule["balance_shifts"], rule,
                                       WeightOr(weight, 20000))
       ELSE 0)
    + (IF GetBool(rule, "balance_weekend_work")
       THEN _add_weekend_balance_penalty(x, staff_list, num_days, all_shifts,
                                         WeightOr(weight, 15000), solver_input)
       ELSE 0)

\* the constraints one enabled rule posts (the if/elif chain of build_constraints)
BuildRule(x, constraint, staff_list, num_days, all_shifts, night_shifts, solver_input) ==
    LET rule_type == get_rule_type(constraint)
        weight == IF is_soft(constraint) THEN constraint.penalty_weight ELSE None
    IN IF ~HasGet(get_rule(constraint))
       THEN TRUE    \* rule.get raises in the builder, "except Exception" prints it
       ELSE
       CASE rule_type = "sequence" ->
              _build_sequence_constraint(x, constraint, staff_list, num_days,
                                         all_shifts, night_shifts)
         [] rule_type = "rolling_window" ->
              _build_rolling_window_constraint(x, constraint, staff_list, num_days,
                                               all_shifts)
         [] rule_type = "basic" ->
              _build_basic_constraint(x, constraint, staff_list, num_days, all_shifts)
         [] rule_type = "skill_match" ->
              _build_skill_constraint(x, constraint, staff_list, num_days, all_shifts)
         [] rule_type = "forbidden" ->
              _build_forbidden_constraint(x, constraint, staff_list, num_days, all_shifts)
         [] rule_type = "preference" ->
              _build_preference_constraint(x, constraint, staff_list, num_days, all_shifts)
         [] rule_type = "balance" ->
              _build_balance_constraint(x, constraint, staff_list, num_days, all_shifts,
                                        solver_input)
         [] rule_type = "coverage" ->
              _build_coverage_constraint(x, constraint, staff_list, num_days, all_shifts,
                                         night_shifts, weight, solver_input.closed_days)
         [] OTHER -> TRUE

\* the penalty terms one enabled rule appends to solver.penalty_vars
BuildRulePenalty(x, constraint, staff_list, num_days, all_shifts, night_shifts, solver_input) ==
    LET rule_type == get_rule_type(constraint)
        weight == IF is_soft(constraint) THEN constraint.penalty_weight ELSE None
    IN IF ~HasGet(get_rule(constraint)) THEN 0
       ELSE
       CASE rule_type = "preference" ->
              _build_preference_constraint_penalty(x, constraint, staff_list, num_days,
                                                   all_shifts, weight, solver_input)
         [] rule_type = "balance" ->
              _build_balance_constraint_penalty(x, constraint, staff_list, num_days,
                                                all_shifts, weight, solver_input)
         [] rule_type = "coverage" ->
              _build_coverage_constraint_penalty(x, constraint, staff_list, num_days,
                                                 all_shifts, night_shifts, weight,
                                                 solver_input.closed_days)
         [] OTHER -> 0

\* constraint.get_rule_type() / get_rule() of an enabled rule raise before the
\* try block is entered: the exception leaves build_constraints
build_constraints_raises(rules) ==
    \E j \in DOMAIN rules :
        rules[j].is_enabled /\ ~HasGet(rules[j].rule_definition)

build_constraints(x, rules, staff_list, num_days, all_shifts, night_shifts, solver_input) ==
    \A j \in DOMAIN rules :
        rules[j].is_enabled =>
            BuildRule(x, rules[j], staff_list, num_days, all_shifts, night_shifts,
                      solver_input)

build_constraints_penalty(x, rules, staff_list, num_days, all_shifts, night_shifts, solver_input) ==
    SumFn([j \in DOMAIN rules |->
            IF rules[j].is_enabled
            THEN BuildRulePenalty(x, rules[j], staff_list, num_days, all_shifts,
                                  night_shifts, solver_input)
            ELSE 0],
          DOMAIN rules)

-----------------------------------------------------------------------------
(* solver/stage1_solver.py: Stage1Solver.setup *)

\* self.stage1_shifts = solver_input.night_shifts + ["L1", SHIFT_OFF, SHIFT_PUBLIC_OFF]
stage1_shifts(inp) == inp.night_shifts \o <<"L1", SHIFT_OFF, SHIFT_PUBLIC_OFF>>

\* skill_map = {"L1": "L1"}; for ns in night_shifts: skill_map[ns] = "NIGHT"
SkillMap(night_shifts) ==
    [c \in {"L1"} \cup Range(night_shifts) |->
        IF c \in Range(night_shifts) THEN "NIGHT" ELSE "L1"]

\* the consecutive_work counter after the loop over history
RECURSIVE ConsecutiveWork(_)
ConsecutiveWork(history) ==
    IF history = <<>> THEN 0
    ELSE IF history[Len(history)] \in {SHIFT_OFF, SHIFT_PUBLIC_OFF, "", "-"} THEN 0
    ELSE 1 + ConsecutiveWork(SubSeq(history, 1, Len(history) - 1))

\* a history that is never read
_add_prev_history_constraints_skipped(x, inp) == TRUE

_add_prev_history_constraints(x, inp) ==
    LET shifts == stage1_shifts(inp)
        off_idx == ShiftToIdx(shifts, SHIFT_OFF)
    IN \A s \in Staff(inp.staff_list) :
        LET history == Get(inp.prev_history, inp.staff_list[s].name, <<>>) IN
        Len(history) >= 1 =>
            /\ history[Len(history)] \in Range(inp.night_shifts)
                   => Value(x, s, 1, off_idx) = 1
            /\ (Len(history) >= 3 /\ ConsecutiveWork(history) >= 5)
                   => Value(x, s, 1, off_idx) = 1

\* l1_count - 1 of day d
L1Deviation(x, inp, d) ==
    Abs(ShiftCount(x, inp.staff_list, d, {ShiftToIdx(stage1_shifts(inp), "L1")}) - 1)

\* deviation = NewIntVar(0, len(staff_list)) for every day that is not closed
_add_l1_daily_constraint_domain(x, inp) ==
    \A d \in Days(inp.num_days) \ Range(inp.closed_days) :
        L1Deviation(x, inp, d) <= Len(inp.staff_list)

_add_l1_daily_constraint(x, inp) ==
    LET open == Days(inp.num_days) \ Range(inp.closed_days) IN
    SumFn([d \in open |-> 35000 * L1Deviation(x, inp, d)], open)

\* |count * len(group) - total| for the member s of a balanced group
BalanceDeviation(x, group, s, num_days, idxs) ==
    Abs(CountOver(x, s, num_days, idxs) * Cardinality(group)
        - SumFn([t \in group |-> CountOver(x, t, num_days, idxs)], group))

\* night_staff, when the balance term is posted at all
NightStaff(inp) ==
    LET night_indices == Indices(stage1_shifts(inp), Range(inp.night_shifts))
        night_staff == {s \in Staff(inp.staff_list) : can_night(inp.staff_list[s])}
    IN IF night_indices = {} \/ Cardinality(night_staff) < 2 THEN {} ELSE night_staff

\* deviation = NewIntVar(0, num_days)
_add_night_balance_constraint_domain(x, inp) ==
    LET night_indices == Indices(stage1_shifts(inp), Range(inp.night_shifts)) IN
    \A s \in NightStaff(inp) :
        BalanceDeviation(x, NightStaff(inp), s, inp.num_days, night_indices)
            <= inp.num_days

_add_night_balance_constraint(x, inp) ==
    LET night_indices == Indices(stage1_shifts(inp), Range(inp.night_shifts))
        night_staff == NightStaff(inp)
    IN SumFn([s \in night_staff |->
               (20000 \div Cardinality(night_staff))
               * BalanceDeviation(x, night_staff, s, inp.num_days, night_indices)],
             night_staff)

\* every constraint Stage1Solver.setup posts, in the order of the source
Stage1Setup(x, inp, rules) ==
    LET shifts == stage1_shifts(inp) IN
    /\ add_exactly_one_shift_per_day(x, inp.staff_list, inp.num_days, shifts)
    /\ add_skill_constraints(x, inp.staff_list, inp.num_days, shifts,
                             SkillMap(inp.night_shifts))
    /\ add_ng_constraints(x, inp.staff_list, inp.num_days, shifts, inp.ng_shifts)
    /\ add_night_off_constraint(x, inp.staff_list, inp.num_days, shifts, inp.night_shifts)
    /\ _add_prev_history_constraints(x, inp)
    /\ add_consecutive_work_limit(x, inp.staff_list, inp.num_days, shifts, 5)
    /\ add_target_off_soft_constraint_domain(x, inp.staff_list, inp.num_days, shifts)
    /\ _add_l1_daily_constraint_domain(x, inp)
    /\ _add_night_balance_constraint_domain(x, inp)
    /\ build_constraints(x, rules, inp.staff_list, inp.num_days, shifts,
                         inp.night_shifts, inp)

\* sum(var * weight for var, weight in self.penalty_vars) of Stage 1
Stage1Objective(x, inp, rules) ==
    LET shifts == stage1_shifts(inp) IN
      add_request_soft_constraints(x, inp.staff_list, inp.num_days, shifts,
                                   inp.requests, 50000)
    + add_target_off_soft_constraint(x, inp.staff_list, inp.num_days, shifts, 30000)
    + _add_l1_daily_constraint(x, inp)
    + _add_night_balance_constraint(x, inp)
    + build_constraints_penalty(x, rules, inp.staff_list, inp.num_days, shifts,
                                inp.night_shifts, inp)

-----------------------------------------------------------------------------
(* solver/stage2_solver.py: Stage2Solver.setup *)

\* self.all_shifts = day_shifts + night_shifts + [SHIFT_OFF, SHIFT_PUBLIC_OFF]
all_shifts_of(inp) ==
    inp.day_shifts \o inp.night_shifts \o <<SHIFT_OFF, SHIFT_PUBLIC_OFF>>

\* name_to_idx = {staff.name: idx for idx, staff in enumerate(staff_list)}
InNames(staff_list, name) == \E s \in Staff(staff_list) : staff_list[s].name = name

NameToIdx(staff_list, name) ==
    CHOOSE s \in Staff(staff_list) :
        /\ staff_list[s].name = name
        /\ \A t \in Staff(staff_list) : staff_list[t].name = name => t <= s

\* a pinning that leaves the OFF and PUB cells of Stage 1 free
_fix_stage1_cells_work_only(x, inp, df) ==
    LET shifts == all_shifts_of(inp) IN
    \A r \in DOMAIN df :
        InNames(inp.staff_list, df[r].name) =>
            LET s_idx == NameToIdx(inp.staff_list, df[r].name) IN
            \A d \in Days(inp.num_days) :
                d \in DOMAIN df[r].day =>
                    LET shift == df[r].day[d] IN
                    (/\ InShifts(shifts, shift)
                     /\ (shift \in Range(inp.night_shifts) \/ shift = "L1"))
                    => Value(x, s_idx, d, ShiftToIdx(shifts, shift)) = 1

\* the shifts of Stage 1 that are pinned: night shifts, L1, off
IsStage1Shift(inp, shift) ==
    shift \in Range(inp.night_shifts) \/ shift \in {"L1", SHIFT_OFF, SHIFT_PUBLIC_OFF}

_fix_stage1_cells(x, inp, df) ==
    LET shifts == all_shifts_of(inp) IN
    \A r \in DOMAIN df :
        InNames(inp.staff_list, df[r].name) =>
            LET s_idx == NameToIdx(inp.staff_list, df[r].name) IN
            \A d \in Days(inp.num_days) :
                d \in DOMAIN df[r].day =>
                    LET shift == df[r].day[d] IN
                    (/\ shift # ""
                     /\ InShifts(shifts, shift)
                     /\ IsStage1Shift(inp, shift))
                    => Value(x, s_idx, d, ShiftToIdx(shifts, shift)) = 1

\* a setup that pins no edited cell
_fix_edited_cells_skipped(x, inp) == TRUE

\* an off-by-one day guard: 1 <= d < num_days
_fix_edited_cells_short(x, inp) ==
    LET shifts == all_shifts_of(inp) IN
    \A staff_name \in DOMAIN inp.fixed_cells :
        InNames(inp.staff_list, staff_name) =>
            LET s_idx == NameToIdx(inp.staff_list, staff_name)
                day_shifts == inp.fixed_cells[staff_name]
            IN \A d \in DOMAIN day_shifts :
                (1 <= d /\ d < inp.num_days /\ InShifts(shifts, day_shifts[d]))
                => Value(x, s_idx, d, ShiftToIdx(shifts, day_shifts[d])) = 1

_fix_edited_cells(x, inp) ==
    LET shifts == all_shifts_of(inp) IN
    \A staff_name \in DOMAIN inp.fixed_cells :
        InNames(inp.staff_list, staff_name) =>
            LET s_idx == NameToIdx(inp.staff_list, staff_name)
                day_shifts == inp.fixed_cells[staff_name]
            IN \A d \in DOMAIN day_shifts :
                (1 <= d /\ d <= inp.num_days /\ InShifts(shifts, day_shifts[d]))
                => Value(x, s_idx, d, ShiftToIdx(shifts, day_shifts[d])) = 1

_add_day_shift_request_constraints(x, inp) ==
    LET shifts == all_shifts_of(inp) IN
    SumFn([s \in Staff(inp.staff_list) |->
            LET staff_req == Get(inp.requests, inp.staff_list[s].name, <<>>) IN
            SumFn([d \in DOMAIN staff_req |->
                    IF /\ 1 <= d /\ d <= inp.num_days
                       /\ staff_req[d] \in Range(inp.day_shifts)
                       /\ InShifts(shifts, staff_req[d])
                    THEN 40000 * (1 - Value(x, s, d, ShiftToIdx(shifts, staff_req[d])))
                    ELSE 0],
                  DOMAIN staff_req)],
          Staff(inp.staff_list))

\* deviation = NewIntVar(0, num_days) for every staff member
_add_day_shift_balance_domain(x, inp) ==
    LET day_shift_indices == Indices(all_shifts_of(inp), Range(inp.day_shifts)) IN
    day_shift_indices # {} =>
        \A s \in Staff(inp.staff_list) :
            BalanceDeviation(x, Staff(inp.staff_list), s, inp.num_days, day_shift_indices)
                <= inp.num_days

_add_day_shift_balance(x, inp) ==
    LET day_shift_indices == Indices(all_shifts_of(inp), Range(inp.day_shifts))
        n_staff == Len(inp.staff_list)
    IN IF day_shift_indices = {} THEN 0
       ELSE SumFn([s \in Staff(inp.staff_list) |->
                    (10000 \div n_staff)
                    * BalanceDeviation(x, Staff(inp.staff_list), s, inp.num_days,
                                       day_shift_indices)],
                  Staff(inp.staff_list))

\* shortage = NewIntVar(0, len(staff_list)); shortage >= min_coverage - working_count
_add_daily_coverage_domain(x, inp) ==
    LET off_indices == OffIndices(all_shifts_of(inp)) IN
    \A d \in Days(inp.num_days) \ Range(inp.closed_days) :
        Shortage(3, WorkingStaff(x, inp.staff_list, d, off_indices))
            <= Len(inp.staff_list)

_add_daily_coverage(x, inp) ==
    LET off_indices == OffIndices(all_shifts_of(inp))
        open == Days(inp.num_days) \ Range(inp.closed_days)
    IN SumFn([d \in open |->
               25000 * Shortage(3, WorkingStaff(x, inp.staff_list, d, off_indices))],
             open)

\* every constraint Stage2Solver.setup posts, in the order of the source
Stage2Setup(x, inp, df, rules) ==
    LET shifts == all_shifts_of(inp) IN
    /\ _fix_stage1_cells(x, inp, df)
    /\ _fix_edited_cells(x, inp)
    /\ add_exactly_one_shift_per_day(x, inp.staff_list, inp.num_days, shifts)
    /\ add_skill_constraints(x, inp.staff_list, inp.num_days, shifts,
                             SkillMap(inp.night_shifts))
    /\ add_ng_constraints(x, inp.staff_list, inp.num_days, shifts, inp.ng_shifts)
    /\ add_consecutive_work_limit(x, inp.staff_list, inp.num_days, shifts, 5)
    /\ _add_day_shift_balance_domain(x, inp)
    /\ _add_daily_coverage_domain(x, inp)
    /\ build_constraints(x, rules, inp.staff_list, inp.num_days, shifts,
                         inp.night_shifts, inp)

\* sum(var * weight for var, weight in self.penalty_vars) of Stage 2
Stage2Objective(x, inp, rules) ==
    LET shifts == all_shifts_of(inp) IN
      _add_day_shift_request_constraints(x, inp)
    + _add_day_shift_balance(x, inp)
    + _add_daily_coverage(x, inp)
    + build_constraints_penalty(x, rules, inp.staff_list, inp.num_days, shifts,
                                inp.night_shifts, inp)

-----------------------------------------------------------------------------
(* The CP-SAT model and solver *)

\* the values of the decision grid that pass AddExactlyOne on every cell
Candidates(staff_list, num_days, all_shifts) ==
    [Cells(staff_list, num_days) ->
        {true_vars \in SUBSET (DOMAIN all_shifts) : AddExactlyOne(true_vars)}]

\* self.model after setup: every solution of the posted constraints, with the
\* value the objective (set_objective: the weighted sum of penalty_vars) takes
CpModel(inp, rules, stg, df) ==
    IF stg = 1
    THEN {[val |-> x, objective |-> Stage1Objective(x, inp, rules)] :
            x \in {y \in Candidates(inp.staff_list, inp.num_days, stage1_shifts(inp)) :
                     Stage1Setup(y, inp, rules)}}
    ELSE {[val |-> x, objective |-> Stage2Objective(x, inp, rules)] :
            x \in {y \in Candidates(inp.staff_list, inp.num_days, all_shifts_of(inp)) :
                     Stage2Setup(y, inp, df, rules)}}

\* the alphabet of the running stage
StageShifts == IF stage = 1 THEN stage1_shifts(input) ELSE all_shifts_of(input)

\* the day_shifts the stage hands to build_summary_df
SummaryDayShifts == IF stage = 1 THEN <<"L1">> ELSE input.day_shifts

\* model.AddBoolOr([lit.Not() for lit in solution_literals]): some shift variable
\* that is 1 in the excluded solution is 0 in x
NogoodClause(cut, x) == \E c \in DOMAIN cut : \E sh \in cut[c] : sh \notin x[c]

\* a cut that replaces the earlier cuts instead of joining them
add_nogood_cut_last(old_cuts, solution) == {solution}

\* add_nogood_cut: the clause of the current solution joins the model
add_nogood_cut(old_cuts, solution) == old_cuts \cup {solution}

\* the solutions of self.model, no-good clauses included
Solutions(mdl, cts) == {m \in mdl : \A cut \in cts : NogoodClause(cut, m.val)}

\* self.solver.Solve(self.model): OPTIMAL with a least-objective solution,
\* FEASIBLE with any solution (the time limit ended the search), INFEASIBLE
\* when there is none, UNKNOWN when the time limit ended the search first
SolveOutcomes(mdl, cts) ==
    LET sols == Solutions(mdl, cts) IN
         {[status |-> "OPTIMAL", sol |-> m] :
            m \in {m \in sols : \A n \in sols : m.objective <= n.objective}}
    \cup {[status |-> "FEASIBLE", sol |-> m] : m \in sols}
    \cup (IF sols = {} THEN {[status |-> "INFEASIBLE", sol |-> NoDf]} ELSE {})
    \cup {[status |-> "UNKNOWN", sol |-> NoDf]}

\* the first shift whose variable is 1, "" when there is none
AssignedShift(x, s, d, all_shifts) ==
    IF x[<<s, d>>] \cap DOMAIN all_shifts = {} THEN ""
    ELSE all_shifts[Min(x[<<s, d>>] \cap DOMAIN all_shifts)]

extract_schedule_df(x, staff_list, num_days, all_shifts) ==
    [s \in Staff(staff_list) |->
        LET row == [d \in Days(num_days) |-> AssignedShift(x, s, d, all_shifts)] IN
        [name |-> staff_list[s].name,
         day |-> row,
         off_days |-> Cardinality({d \in Days(num_days) :
                          row[d] \in {SHIFT_OFF, SHIFT_PUBLIC_OFF}}),
         work_days |-> Cardinality({d \in Days(num_days) :
                          row[d] \notin {SHIFT_OFF, SHIFT_PUBLIC_OFF} /\ row[d] # ""})]]

\* a summary without the column and the subtraction of SHIFT_PUBLIC_OFF
build_summary_df_no_public_off(schedule_df, num_days, day_shifts, night_shifts) ==
    LET all_shifts == day_shifts \o night_shifts \o <<SHIFT_OFF>>
        count(d, shift) == Cardinality({s \in DOMAIN schedule_df :
                                          schedule_df[s].day[d] = shift})
    IN [d \in Days(num_days) |->
          [day |-> d,
           counts |-> [shift \in Range(all_shifts) |-> count(d, shift)],
           work |-> Cardinality(DOMAIN schedule_df) - count(d, SHIFT_OFF)]]

\* one row per day: the count of every code of day_shifts + night_shifts +
\* [SHIFT_OFF, SHIFT_PUBLIC_OFF] (a dict, one key per distinct code), and
\* work = len(col) - (col == SHIFT_OFF).sum() - (col == SHIFT_PUBLIC_OFF).sum()
build_summary_df(schedule_df, num_days, day_shifts, night_shifts) ==
    LET all_shifts == day_shifts \o night_shifts \o <<SHIFT_OFF, SHIFT_PUBLIC_OFF>>
        count(d, shift) == Cardinality({s \in DOMAIN schedule_df :
                                          schedule_df[s].day[d] = shift})
    IN [d \in Days(num_days) |->
          [day |-> d,
           counts |-> [shift \in Range(all_shifts) |-> count(d, shift)],
           work |-> Cardinality(DOMAIN schedule_df) - count(d, SHIFT_OFF)
                        - count(d, SHIFT_PUBLIC_OFF)]]

\* BaseSolver.solve followed by the extraction of solve_multi / solve_stageN;
\* day_shifts is ["L1"] in Stage 1 and solver_input.day_shifts in Stage 2;
\* the summary is built from the one table that was extracted
SolverResult(outcome, staff_list, num_days, all_shifts, day_shifts, night_shifts) ==
    IF outcome.status \in {"OPTIMAL", "FEASIBLE"}
    THEN CHOOSE result \in
            {[success |-> TRUE,
              status |-> outcome.status,
              objective_value |-> outcome.sol.objective,
              df |-> df,
              summary_df |-> build_summary_df(df, num_days, day_shifts, night_shifts)]
                : df \in {extract_schedule_df(outcome.sol.val, staff_list, num_days,
                                              all_shifts)}} : TRUE
    ELSE [success |-> FALSE,
          status |-> outcome.status,
          objective_value |-> 0,
          df |-> NoDf,
          summary_df |-> NoDf]

-----------------------------------------------------------------------------
(* Actions *)

\* StageNSolver.setup
Setup ==
    /\ pc = "new"
    /\ IF constraints # <<>> /\ build_constraints_raises(constraints)
       THEN /\ pc' = "raised"     \* the exception leaves setup and solve_stageN
            /\ model' = model
       ELSE /\ model' = CpModel(input, constraints, stage, stage1_df)
            /\ pc' = IF entry = "multi" THEN "loop" ELSE "solve"
    /\ UNCHANGED <<input, constraints, stage, entry, k, stage1_df, cuts, i, results, calls>>

\* an iteration that goes on to the next one after a failed solve ("continue"
\* for "break")
SolveMultiIterContinue ==
    /\ pc = "loop"
    /\ i < k
    /\ \E outcome \in SolveOutcomes(model, cuts) :
        LET result == SolverResult(outcome, input.staff_list, input.num_days, StageShifts,
                                  SummaryDayShifts, input.night_shifts) IN
        /\ calls' = Append(calls, result)
        /\ results' = IF result.success THEN Append(results, result) ELSE results
        /\ cuts' = IF result.success /\ i < k - 1
                   THEN add_nogood_cut(cuts, outcome.sol.val) ELSE cuts
        /\ i' = i + 1
        /\ pc' = "loop"
    /\ UNCHANGED <<input, constraints, stage, entry, k, stage1_df, model>>

\* an iteration that cuts after every success, the k-th included (no
\* "if i < k - 1")
SolveMultiIterAlwaysCut ==
    /\ pc = "loop"
    /\ i < k
    /\ \E outcome \in SolveOutcomes(model, cuts) :
        LET result == SolverResult(outcome, input.staff_list, input.num_days, StageShifts,
                                  SummaryDayShifts, input.night_shifts) IN
        /\ calls' = Append(calls, result)
        /\ IF result.success
           THEN /\ results' = Append(results, result)
                /\ cuts' = add_nogood_cut(cuts, outcome.sol.val)
                /\ i' = i + 1
                /\ pc' = "loop"
           ELSE /\ pc' = "done"
                /\ UNCHANGED <<results, cuts, i>>
    /\ UNCHANGED <<input, constraints, stage, entry, k, stage1_df, model>>

\* one iteration of the loop of solve_multi
SolveMultiIter ==
    /\ pc = "loop"
    /\ i < k
    /\ \E outcome \in SolveOutcomes(model, cuts) :
        LET result == SolverResult(outcome, input.staff_list, input.num_days, StageShifts,
                                  SummaryDayShifts, input.night_shifts) IN
        /\ calls' = Append(calls, result)
        /\ IF result.success
           THEN /\ results' = Append(results, result)
                /\ cuts' = IF i < k - 1 THEN add_nogood_cut(cuts, outcome.sol.val) ELSE cuts
                /\ i' = i + 1
                /\ pc' = "loop"
           ELSE /\ pc' = "done"
                /\ UNCHANGED <<results, cuts, i>>
    /\ UNCHANGED <<input, constraints, stage, entry, k, stage1_df, model>>

\* range(k) is exhausted: return results
SolveMultiReturn ==
    /\ pc = "loop"
    /\ i >= k
    /\ pc' = "done"
    /\ UNCHANGED <<input, constraints, stage, entry, k, stage1_df, model, cuts, i, results, calls>>

\* solve_stage1 / solve_stage2 after setup: one solve, the result is returned
SolveSingle ==
    /\ pc = "solve"
    /\ \E outcome \in SolveOutcomes(model, cuts) :
        LET result == SolverResult(outcome, input.staff_list, input.num_days, StageShifts,
                                  SummaryDayShifts, input.night_shifts) IN
        /\ calls' = Append(calls, result)
        /\ results' = <<result>>
    /\ pc' = "done"
    /\ UNCHANGED <<input, constraints, stage, entry, k, stage1_df, model, cuts, i>>

Next == Setup \/ SolveMultiIter \/ SolveMultiReturn \/ SolveSingle

-----------------------------------------------------------------------------
(* The calls the model explores *)

MaxK == 3          \* k of solve_multi ranges over 0..MaxK
MaxDays == 3       \* num_days ranges over 1..MaxDays
MaxCells == 4      \* grids of at most MaxCells (staff, day) cells
KBestSols == 4     \* k > 1 is explored on models of at most KBestSols solutions
Stage2Tables == 13 \* Stage 2 is explored on problems of at most Stage2Tables Stage-1 tables

StaffInfo(name, skills, target_off) ==
    [name |-> name, skills |-> skills, target_off |-> target_off]

SolverInput(staff_list, num_days, day_shifts, night_shifts) ==
    [year |-> 2025, month |-> 1,
     num_days |-> num_days, staff_list |-> staff_list, day_shifts |-> day_shifts,
     night_shifts |-> night_shifts, closed_days |-> <<>>, requests |-> <<>>,
     ng_shifts |-> <<>>, prev_history |-> <<>>, fixed_cells |-> <<>>]

Constraint(code, constraint_type, is_enabled, penalty_weight, rule_type, rule) ==
    [code |-> code, constraint_type |-> constraint_type, is_enabled |-> is_enabled,
     penalty_weight |-> penalty_weight,
     rule_definition |-> [type |-> rule_type, rule |-> rule]]

StaffLists ==
    { <<StaffInfo("A", {"NIGHT", "L1"}, 1)>>,
      <<StaffInfo("A", {"NIGHT", "L1"}, 1), StaffInfo("B", {}, 1)>>,
      <<StaffInfo("A", {"NIGHT"}, 1), StaffInfo("B", {"L1"}, 0)>> }

DayShiftLists == { <<"D1", "L1">>, <<"D1">> }

\* the problems without requests, NG shifts, history, edits or closed days
BaseInputs ==
    {SolverInput(sl, d, ds, <<"Q1">>) :
        sl \in StaffLists, d \in 1..MaxDays, ds \in DayShiftLists}

NgMaps ==
    { "A" :> (1 :> {"Q1"}),
      "A" :> (1 :> {"L1", "PUB"} @@ (MaxDays + 1) :> {SHIFT_OFF}),
      "B" :> (1 :> {SHIFT_OFF, "D1"}) }

RequestMaps == { "A" :> (1 :> "Q1"), "B" :> (1 :> "D1") }

FixedCellMaps ==
    { "A" :> (1 :> "L1"), "A" :> (1 :> SHIFT_OFF), "B" :> (1 :> "D1"),
      "B" :> (1 :> "Q1" @@ (MaxDays + 1) :> "D1") }

HistoryMaps == { "A" :> <<"L1", "L1", "Q1">>, "A" :> <<"L1">> }

ClosedDayLists == { <<1>>, <<1, 2>> }

\* a base problem, or a base problem with one more input given
Inputs ==
    UNION {
        {b} \cup {[b EXCEPT !.ng_shifts = m] : m \in NgMaps}
            \cup {[b EXCEPT !.requests = m] : m \in RequestMaps}
            \cup {[b EXCEPT !.fixed_cells = m] : m \in FixedCellMaps}
            \cup {[b EXCEPT !.prev_history = m] : m \in HistoryMaps}
            \cup {[b EXCEPT !.closed_days = m] : m \in ClosedDayLists}
        : b \in BaseInputs }

Sequence(after_shifts, next_day_must_be) ==
    Constraint("SEQ", "hard", TRUE, 200000, "sequence",
               [after_shifts |-> after_shifts, next_day_must_be |-> next_day_must_be])

RollingWindow(is_enabled, w) ==
    Constraint("MAX_CONSEC_WORK", "hard", is_enabled, 200000, "rolling_window",
               [max_consecutive_work_days |-> w])

SkillMatch(shift_skill_map) ==
    Constraint("SKILL_REQ", "hard", TRUE, 200000, "skill_match",
               [shift_skill_map |-> shift_skill_map])

Forbidden(is_enabled) ==
    Constraint("NG_FORBIDDEN", "hard", is_enabled, 200000, "forbidden",
               [respect_ng_assignments |-> TRUE])

Coverage(constraint_type, penalty_weight, shift_code, n) ==
    Constraint("COVERAGE", constraint_type, TRUE, penalty_weight, "coverage",
               [shift_code |-> shift_code, exactly_per_day |-> n])

\* a rule of a type the builder does not know
UnknownType ==
    Constraint("CUSTOM", "hard", TRUE, 200000, "custom", [limit |-> 1])

\* a rolling-window rule whose "rule" payload is null
NullPayload ==
    Constraint("MAX_CONSEC_WORK", "hard", TRUE, 200000, "rolling_window", JsonNull)

\* a rule whose rule_definition is null
NullDefinition(is_enabled) ==
    [code |-> "BROKEN", constraint_type |-> "hard", is_enabled |-> is_enabled,
     penalty_weight |-> 200000, rule_definition |-> JsonNull]

RuleLists ==
    { <<>>,
      <<UnknownType, RollingWindow(TRUE, 1)>>,
      <<NullPayload, RollingWindow(TRUE, 1)>>,
      <<NullDefinition(FALSE), RollingWindow(TRUE, 1)>>,
      <<Sequence(<<"Q1">>, <<SHIFT_PUBLIC_OFF>>)>>,
      <<Sequence(<<"L1">>, <<SHIFT_OFF, SHIFT_PUBLIC_OFF>>)>>,
      <<SkillMatch("L1" :> "NIGHT" @@ "D1" :> "L1")>>,
      <<Forbidden(TRUE)>>, <<Forbidden(FALSE)>>,
      <<Coverage("soft", 35000, "L1", 1)>> }
    \cup {<<RollingWindow(e, w)>> : e \in BOOLEAN, w \in 0..(MaxDays - 1)}
    \cup {<<Coverage("hard", 200000, c, n)>> : c \in {"L1", "Q1"}, n \in 0..2}

\* the forbidden rule, enabled or not, beside an NG map
ForbiddenLists == { <<Forbidden(TRUE)>>, <<Forbidden(FALSE)>> }

Fits(inp) == Len(inp.staff_list) * inp.num_days <= MaxCells

\* the problems and rule lists of a call: every rule list on the base
\* problems, the other problems without rules, the NG maps with the rule
\* "forbidden"
Problems ==
    {<<b, r>> : b \in {b \in BaseInputs : Fits(b)}, r \in RuleLists}
    \cup {<<p, <<>>>> : p \in {p \in Inputs : Fits(p)}}
    \cup {<<p, r>> : p \in {p \in Inputs : Fits(p) /\ p.ng_shifts # <<>>},
                     r \in ForbiddenLists}

\* the k a call of solve_multi is explored with
KRange(inp, rules, stg, df) ==
    IF Cardinality(CpModel(inp, rules, stg, df)) <= KBestSols THEN 0..MaxK ELSE 0..1

\* the tables a caller can select from the results of Stage 1
Stage1Tables(inp, rules) ==
    {extract_schedule_df(m.val, inp.staff_list, inp.num_days, stage1_shifts(inp)) :
        m \in CpModel(inp, rules, 1, NoDf)}

\* solve_stage1 (k unused) and solve_stage1_multi; Stage 1 never reads day_shifts
Stage1Calls ==
    UNION {
        {[input |-> pr[1], constraints |-> pr[2], stage |-> 1, stage1_df |-> NoDf,
          entry |-> "multi", k |-> kk] : kk \in KRange(pr[1], pr[2], 1, NoDf)}
        \cup {[input |-> pr[1], constraints |-> pr[2], stage |-> 1, stage1_df |-> NoDf,
               entry |-> "single", k |-> 1]}
        : pr \in {q \in Problems : q[1].day_shifts = <<"D1", "L1">>} }

\* solve_stage2 (k unused) and solve_stage2_multi on a table of Stage 1
Stage2Calls ==
    UNION {
        UNION {
            {[input |-> pr[1], constraints |-> pr[2], stage |-> 2, stage1_df |-> df,
              entry |-> "multi", k |-> kk] : kk \in KRange(pr[1], pr[2], 2, df)}
            \cup {[input |-> pr[1], constraints |-> pr[2], stage |-> 2, stage1_df |-> df,
                   entry |-> "single", k |-> 1]}
            : df \in Stage1Tables(pr[1], pr[2]) }
        : pr \in {q \in Problems : Cardinality(Stage1Tables(q[1], q[2])) <= Stage2Tables} }

\* solve_stage2 on the two-staff, two-day problems under a rolling-window rule
Stage2WindowCalls ==
    UNION {
        {[input |-> b, constraints |-> <<RollingWindow(TRUE, 1)>>, stage |-> 2,
          stage1_df |-> df, entry |-> "single", k |-> 1]
            : df \in Stage1Tables(b, <<RollingWindow(TRUE, 1)>>)}
        : b \in {c \in BaseInputs : Len(c.staff_list) = 2 /\ c.num_days = 2} }

\* the rule lists with an enabled rule whose rule_definition is null
RaisingLists ==
    { <<NullDefinition(TRUE), RollingWindow(TRUE, 1)>>,
      <<RollingWindow(TRUE, 1), NullDefinition(TRUE)>> }

\* the calls with such a rule list: Stage 1, and Stage 2 on a table of Stage 1
\* made without rules
RaisingCalls ==
    UNION {
        {[input |-> b, constraints |-> r, stage |-> 1, stage1_df |-> NoDf,
          entry |-> e, k |-> 2] : e \in {"single", "multi"}}
        \cup {[input |-> b, constraints |-> r, stage |-> 2, stage1_df |-> df,
               entry |-> e, k |-> 2]
                : e \in {"single", "multi"}, df \in Stage1Tables(b, <<>>)}
        : b \in {c \in BaseInputs : Len(c.staff_list) * c.num_days <= 2},
          r \in RaisingLists }

\* Stage 2 without rules on the two-staff, two-day problems, on the Stage-1
\* tables whose first row (staff A, who has the skill NIGHT) is Q1 then OFF
StagePinningCalls ==
    UNION {
        {[input |-> b, constraints |-> <<>>, stage |-> 2, stage1_df |-> df,
          entry |-> e, k |-> 2]
            : e \in {"single", "multi"},
              df \in {t \in Stage1Tables(b, <<>>) : t[1].day = <<"Q1", SHIFT_OFF>>}}
        : b \in {c \in BaseInputs : Len(c.staff_list) = 2 /\ c.num_days = 2} }

\* one staff member, a week, target_off = 0; the alphabet of Stage 1 without
\* night shifts is L1, OFF and PUB, and PUB is forbidden on every day: one
\* work shift plus OFF
WeekInput ==
    [SolverInput(<<StaffInfo("A", {"L1"}, 0)>>, 7, <<"D1">>, <<>>)
        EXCEPT !.ng_shifts = "A" :> [d \in 1..7 |-> {SHIFT_PUBLIC_OFF}]]

\* solve_stage1 and solve_stage1_multi (k = 1) on the week, with the built-in
\* limit alone and with the rolling-window rule of 5 days
WeekCalls ==
    {[input |-> WeekInput, constraints |-> r, stage |-> 1, stage1_df |-> NoDf,
      entry |-> e, k |-> 1]
        : e \in {"single", "multi"}, r \in {<<>>, <<RollingWindow(TRUE, 5)>>}}

\* the week with every day closed: Stage 2 posts no daily coverage
ClosedWeekInput == [WeekInput EXCEPT !.closed_days = <<1, 2, 3, 4, 5, 6, 7>>]

\* a rolling-window rule that is disabled, and one wider than the built-in
\* limit of 5 days
CapRuleLists == { <<RollingWindow(FALSE, 1)>>, <<RollingWindow(TRUE, 6)>> }

\* solve_stage1 on the week under these rules, and solve_stage2 on the
\* closed week under them, on the Stage-1 table whose off days are 2, 4 and 6
CapCalls ==
    {[input |-> WeekInput, constraints |-> r, stage |-> 1, stage1_df |-> NoDf,
      entry |-> "single", k |-> 1] : r \in CapRuleLists}
    \cup {[input |-> ClosedWeekInput, constraints |-> r, stage |-> 2, stage1_df |-> df,
           entry |-> "single", k |-> 1]
            : r \in CapRuleLists,
              df \in {t \in Stage1Tables(ClosedWeekInput, <<>>) :
                        \A d \in 1..7 : (t[1].day[d] = SHIFT_OFF) <=> (d \in {2, 4, 6})}}

MinCoverage(constraint_type, penalty_weight, m) ==
    Constraint("MIN_STAFF", constraint_type, TRUE, penalty_weight, "coverage",
               [min_staff_per_day |-> m])

\* the rule lists whose rule adds penalty terms to the objective
PenaltyRuleLists ==
    {<<MinCoverage("soft", w, m)>> : w \in {0, 35000}, m \in {1, 3}}
    \cup {<<MinCoverage("hard", 200000, 1)>>}

\* solve_stage1 on the base problems under such a rule list, and solve_stage2
\* on the tables of Stage 1 where they are few
PenaltyCalls ==
    UNION {
        {[input |-> b, constraints |-> r, stage |-> 1, stage1_df |-> NoDf,
          entry |-> "single", k |-> 1]}
        \cup (IF Cardinality(Stage1Tables(b, r)) <= Stage2Tables
              THEN {[input |-> b, constraints |-> r, stage |-> 2, stage1_df |-> df,
                     entry |-> "single", k |-> 1] : df \in Stage1Tables(b, r)}
              ELSE {})
        : b \in {c \in BaseInputs : Fits(c)}, r \in PenaltyRuleLists }

\* a balance rule over the night shift among the staff with the skill NIGHT
ShiftBalance(penalty_weight) ==
    Constraint("NIGHT_BALANCE", "soft", TRUE, penalty_weight, "balance",
               [balance_shifts |-> <<"Q1">>, among_staff_with_skill |-> "NIGHT"])

\* three staff members who can all work nights, one day
TrioInputs ==
    {SolverInput(<<StaffInfo("A", {"NIGHT", "L1"}, 0), StaffInfo("B", {"NIGHT"}, 0),
                   StaffInfo("C", {"NIGHT"}, 1)>>, 1, ds, <<"Q1">>)
        : ds \in DayShiftLists}

\* solve_stage1 on the trio and on the two-staff base problems, with and
\* without the balance rule, and solve_stage2 on the Stage-1 tables of the
\* trio
BalanceCalls ==
    UNION {
        {[input |-> b, constraints |-> r, stage |-> 1, stage1_df |-> NoDf,
          entry |-> "single", k |-> 1]}
        \cup (IF b \in TrioInputs
              THEN {[input |-> b, constraints |-> r, stage |-> 2, stage1_df |-> df,
                     entry |-> "single", k |-> 1] : df \in Stage1Tables(b, r)}
              ELSE {})
        : b \in TrioInputs \cup {c \in BaseInputs : Fits(c) /\ Len(c.staff_list) = 2},
          r \in {<<>>, <<ShiftBalance(20000)>>} }

\* the target-off balance rule
TargetOff(penalty_weight) ==
    Constraint("TARGET_OFF", "soft", TRUE, penalty_weight, "balance",
               [target_off_days_field |-> "target_off", deviation_penalty |-> TRUE])

\* one staff member whose target_off exceeds the horizon (8 is the default of
\* StaffInfo)
TargetInputs ==
    {SolverInput(<<StaffInfo("A", {"NIGHT", "L1"}, t)>>, d, <<"D1", "L1">>, <<"Q1">>)
        : t \in {2, 8}, d \in 1..MaxDays}

\* solve_stage1 on these problems and on the base problems, with and without
\* the rule
TargetCalls ==
    {[input |-> b, constraints |-> r, stage |-> 1, stage1_df |-> NoDf,
      entry |-> "single", k |-> 1]
        : b \in TargetInputs \cup {c \in BaseInputs : Fits(c)},
          r \in {<<>>, <<TargetOff(30000)>>}}

\* the request-satisfaction preference rule (REQ_SATISFY)
RequestSatisfaction(penalty_weight) ==
    Constraint("REQ_SATISFY", "soft", TRUE, penalty_weight, "preference",
               [maximize_request_satisfaction |-> TRUE])

\* the problems with a request
RequestInputs ==
    {[b EXCEPT !.requests = m] : b \in {c \in BaseInputs : Fits(c)}, m \in RequestMaps}

\* solve_stage1 on the problems with a request under the rule, and
\* solve_stage2 on the tables of Stage 1 where they are few
RequestCalls ==
    UNION {
        {[input |-> b, constraints |-> r, stage |-> 1, stage1_df |-> NoDf,
          entry |-> "single", k |-> 1]}
        \cup (IF Cardinality(Stage1Tables(b, r)) <= Stage2Tables
              THEN {[input |-> b, constraints |-> r, stage |-> 2, stage1_df |-> df,
                     entry |-> "single", k |-> 1] : df \in Stage1Tables(b, r)}
              ELSE {})
        : b \in RequestInputs,
          r \in {<<RequestSatisfaction(w)>> : w \in {10000, 50000}} }

\* the weekend balance rule (WEEKEND_BALANCE)
WeekendBalance(penalty_weight) ==
    Constraint("WEEKEND_BALANCE", "soft", TRUE, penalty_weight, "balance",
               [balance_weekend_work |-> TRUE])

\* the weekend preference rule (AVOID_SPLIT_WEEKEND)
AvoidSplitWeekend(penalty_weight) ==
    Constraint("AVOID_SPLIT_WEEKEND", "soft", TRUE, penalty_weight, "preference",
               [prefer_full_weekend_off_or_work |-> TRUE])

\* the base problems of two days or more in February 2025, whose first day
\* is a Saturday
WeekendInputs ==
    {[b EXCEPT !.month = 2] : b \in {c \in BaseInputs : Fits(c) /\ c.num_days >= 2}}

\* the soft balance and preference rules with the weight 0 and with the
\* weight of the default rule set
WeightedRuleLists ==
    { <<TargetOff(0)>>, <<ShiftBalance(0)>>,
      <<WeekendBalance(0)>>, <<WeekendBalance(15000)>>,
      <<AvoidSplitWeekend(0)>>, <<AvoidSplitWeekend(10000)>> }

\* solve_stage1 under these rules, in January and in February
WeightedCalls ==
    {[input |-> b, constraints |-> r, stage |-> 1, stage1_df |-> NoDf,
      entry |-> "single", k |-> 1]
        : b \in WeekendInputs \cup {c \in BaseInputs : Fits(c)},
          r \in WeightedRuleLists}

\* histories of one, two and three entries that end with a night shift, and
\* a history of three worked days
TailMaps ==
    { "A" :> <<"Q1">>, "A" :> <<"L1", "Q1">>, "B" :> <<SHIFT_OFF, "Q1", "Q1">>,
      "A" :> <<"L1", "L1", "L1">> }

\* solve_stage1 and solve_stage1_multi on the base problems with such a history
HistoryCalls ==
    {[input |-> [b EXCEPT !.prev_history = m], constraints |-> <<>>, stage |-> 1,
      stage1_df |-> NoDf, entry |-> e[1], k |-> e[2]]
        : b \in {c \in BaseInputs : Fits(c) /\ c.day_shifts = <<"D1", "L1">>},
          m \in TailMaps, e \in {<<"single", 1>>, <<"multi", 1>>}}

Calls ==
    Stage1Calls \cup Stage2Calls \cup Stage2WindowCalls \cup RaisingCalls
    \cup StagePinningCalls \cup WeekCalls \cup PenaltyCalls \cup BalanceCalls
    \cup TargetCalls \cup RequestCalls \cup WeightedCalls \cup HistoryCalls
    \cup CapCalls

Init ==
    /\ \E c \in Calls :
        /\ input = c.input
        /\ constraints = c.constraints
        /\ stage = c.stage
        /\ entry = c.entry
        /\ k = c.k
        /\ stage1_df = c.stage1_df
    /\ pc = "new"
    /\ model = {}
    /\ cuts = {}
    /\ i = 0
    /\ results = <<>>
    /\ calls = <<>>

Spec == Init /\ [][Next]_vars

\* the call runs on: setup returns, Solve returns within max_time_in_seconds
FairSpec == Spec /\ WF_vars(Next)

-----------------------------------------------------------------------------
(* Properties *)

\* the results returned or collected so far
Returned == {results[j] : j \in DOMAIN results}

Successes == {r \in Returned : r.success}

\* the code a result table holds for staff s on day d
Code(df, s, d) == df[s].day[d]

\* C1: in every result of Stage 1 or Stage 2 (single solve or K-best) each
\* (staff, day) cell with day in 1..num_days holds exactly one shift code of the
\* stage's alphabet - none is empty, and no solution of the model sets two shift
\* variables of a cell; a failed solve carries no table at all.
C1_ExactlyOneCodePerCell ==
    /\ \A r \in Returned :
        IF r.success
        THEN /\ DOMAIN r.df = Staff(input.staff_list)
             /\ \A s \in Staff(input.staff_list) :
                 /\ r.df[s].name = input.staff_list[s].name
                 /\ DOMAIN r.df[s].day = Days(input.num_days)
                 /\ \A d \in Days(input.num_days) :
                        Code(r.df, s, d) \in Range(StageShifts)
        ELSE r.df = NoDf
    /\ \A j \in DOMAIN calls : ~calls[j].success => calls[j].df = NoDf
    /\ \A m \in model : \A c \in Cells(input.staff_list, input.num_days) :
           Cardinality(m.val[c] \cap DOMAIN StageShifts) = 1

\* a K-best enumeration of Stage 2 has returned two complete tables
C1_Witness ==
    /\ pc = "done" /\ entry = "multi" /\ stage = 2
    /\ Len(results) >= 2
    /\ \A r \in Returned : r.success /\ r.df # NoDf

\* C2: for every Stage-2 result and every cell whose value in the selected
\* Stage-1 table is a night shift, L1, OFF or PUB_OFF, the Stage-2 value of the
\* cell equals the Stage-1 value, for any catalog, also one whose day_shifts
\* does not contain L1.
C2_Stage2KeepsStage1Cells ==
    stage = 2 =>
        \A r \in Successes : \A s \in Staff(input.staff_list), d \in Days(input.num_days) :
            (\/ Code(stage1_df, s, d) \in Range(input.night_shifts)
             \/ Code(stage1_df, s, d) \in {"L1", SHIFT_OFF, SHIFT_PUBLIC_OFF})
            => Code(r.df, s, d) = Code(stage1_df, s, d)

\* the enabled rules of a type in the rule list whose rule_definition and
\* "rule" payload are mappings (the others raise and post nothing)
EnabledRules(rule_type) ==
    {constraints[j] : j \in {n \in DOMAIN constraints :
        /\ constraints[n].is_enabled
        /\ HasGet(constraints[n].rule_definition)
        /\ HasGet(get_rule(constraints[n]))
        /\ get_rule_type(constraints[n]) = rule_type}}

\* C3: in every Stage-1 result, for any rule list (empty, or with a sequence
\* rule whose next_day_must_be differs), a staff member assigned a night shift
\* on a day d < num_days is assigned OFF on day d + 1.
C3_NightThenOff ==
    stage = 1 =>
        \A r \in Successes : \A s \in Staff(input.staff_list), d \in 1..(input.num_days - 1) :
            Code(r.df, s, d) \in Range(input.night_shifts)
            => Code(r.df, s, d + 1) = SHIFT_OFF

\* Stage 1 under a sequence rule has returned a table with a night shift
\* before the last day
C3_Witness ==
    /\ stage = 1 /\ EnabledRules("sequence") # {}
    /\ \E r \in Successes : \E s \in Staff(input.staff_list), d \in 1..(input.num_days - 1) :
           Code(r.df, s, d) \in Range(input.night_shifts)

\* the working days of staff s in a set of days of a result table
WorkDays(df, s, days) ==
    {d \in days : Code(df, s, d) \notin {SHIFT_OFF, SHIFT_PUBLIC_OFF}}

\* C4: for every enabled rolling_window rule with max_consecutive_work_days = W,
\* every result of the stage has, for each staff member and each window of
\* W + 1 consecutive days inside [1, num_days], at most W days whose code is
\* neither OFF nor PUB_OFF.
C4_RollingWindow ==
    \A c \in EnabledRules("rolling_window") :
        LET W == get_rule(c).max_consecutive_work_days IN
        \A r \in Successes : \A s \in Staff(input.staff_list), start \in 1..(input.num_days - W) :
            Cardinality(WorkDays(r.df, s, start..(start + W))) <= W

\* Stage 2 under an enabled rule with W = 1 has returned a table where a staff
\* member works on one day of a two-day window
C4_Witness ==
    /\ stage = 2 /\ input.num_days >= 2
    /\ \E c \in EnabledRules("rolling_window") : get_rule(c).max_consecutive_work_days = 1
    /\ \E r \in Successes : \E s \in Staff(input.staff_list) :
           Cardinality(WorkDays(r.df, s, 1..2)) = 1

\* C5: in every result of either stage a staff member assigned L1 has skill L1
\* and a staff member assigned a night shift has skill NIGHT; and for each
\* enabled skill_match rule mapping a shift to a skill, no staff member lacking
\* the skill is assigned the shift on any day.
C5_Skills ==
    \A r \in Successes : \A s \in Staff(input.staff_list), d \in Days(input.num_days) :
        LET code == Code(r.df, s, d)
            staff == input.staff_list[s]
        IN /\ code = "L1" => has_skill(staff, "L1")
           /\ code \in Range(input.night_shifts) => has_skill(staff, "NIGHT")
           /\ \A c \in EnabledRules("skill_match") :
                  LET shift_skill_map == get_rule(c).shift_skill_map IN
                  code \in DOMAIN shift_skill_map
                  => has_skill(staff, shift_skill_map[code])

\* Stage 2 under a skill_match rule has returned a table with a shift the rule
\* maps, beside a staff member who lacks that skill
C5_Witness ==
    /\ stage = 2
    /\ \E c \in EnabledRules("skill_match") : \E r \in Successes :
         \E s, t \in Staff(input.staff_list), d \in Days(input.num_days) :
            /\ Code(r.df, s, d) \in DOMAIN get_rule(c).shift_skill_map
            /\ ~has_skill(input.staff_list[t], get_rule(c).shift_skill_map[Code(r.df, s, d)])

\* C6: in every result of either stage, for every (staff, day, shift) of the
\* problem's forbidden map, the code of (staff, day) is not that shift, whether
\* or not a rule "forbidden" is present or enabled in the rule list.
C6_ForbiddenMap ==
    \A r \in Successes : \A s \in Staff(input.staff_list) :
        LET staff_ng == Get(input.ng_shifts, input.staff_list[s].name, <<>>) IN
        \A d \in DOMAIN staff_ng \cap Days(input.num_days) :
            Code(r.df, s, d) \notin staff_ng[d]

\* Stage 2 has returned a table for a problem with a forbidden map while the
\* only rule "forbidden" of the list is disabled
C6_Witness ==
    /\ stage = 2 /\ input.ng_shifts # <<>>
    /\ constraints # <<>> /\ EnabledRules("forbidden") = {}
    /\ \E r \in Successes : \E s \in Staff(input.staff_list) :
           input.staff_list[s].name \in DOMAIN input.ng_shifts

\* C7 as stated: every returned table agrees with fixed_cells - each entry
\* (staff, day) -> shift of fixed_cells is the code of that cell, in Stage 2,
\* and in Stage 1 for the entries whose shift is in the Stage-1 alphabet.
C7_AgreesWithFixedCells ==
    \A r \in Successes : \A staff_name \in DOMAIN input.fixed_cells :
        \A d \in DOMAIN input.fixed_cells[staff_name] :
            LET shift == input.fixed_cells[staff_name][d] IN
            (stage = 2 \/ InShifts(stage1_shifts(input), shift)) =>
                \E s \in Staff(input.staff_list) :
                    /\ input.staff_list[s].name = staff_name
                    /\ d \in Days(input.num_days)
                    /\ Code(r.df, s, d) = shift

\* C7: every Stage-2 table agrees with each entry of fixed_cells whose day lies
\* in 1..num_days and whose shift is in the Stage-2 alphabet; Stage 1 does not
\* read fixed_cells: its model is the model of the problem without them.
C7_Stage2FixedCells ==
    /\ stage = 2 =>
        \A r \in Successes : \A s \in Staff(input.staff_list) :
            LET day_shifts == Get(input.fixed_cells, input.staff_list[s].name, <<>>) IN
            \A d \in DOMAIN day_shifts \cap Days(input.num_days) :
                InShifts(all_shifts_of(input), day_shifts[d])
                => Code(r.df, s, d) = day_shifts[d]
    /\ (stage = 1 /\ pc \in {"loop", "solve"} /\ calls = <<>> /\ input.fixed_cells # <<>>) =>
        model = CpModel([input EXCEPT !.fixed_cells = <<>>], constraints, 1, NoDf)

\* Stage 2 has returned a table for a problem with an edited cell of its
\* alphabet that the selected Stage-1 table does not already pin
C7_Witness ==
    /\ stage = 2
    /\ \E r \in Successes : \E s \in Staff(input.staff_list) :
         LET day_shifts == Get(input.fixed_cells, input.staff_list[s].name, <<>>) IN
         \E d \in DOMAIN day_shifts \cap Days(input.num_days) :
            /\ InShifts(all_shifts_of(input), day_shifts[d])
            /\ Code(stage1_df, s, d) # day_shifts[d]

\* C8: for every enabled hard coverage rule with shift_code = K (K in the stage
\* alphabet) and exactly_per_day = N, for every N >= 0, N = 0 included, every
\* result has exactly N staff assigned K on every day of the month.
C8_HardExactCoverage ==
    \A c \in EnabledRules("coverage") :
        LET rule == get_rule(c) IN
        (/\ ~is_soft(c)
         /\ "shift_code" \in DOMAIN rule /\ "exactly_per_day" \in DOMAIN rule
         /\ InShifts(StageShifts, rule.shift_code))
        => \A r \in Successes : \A d \in Days(input.num_days) :
               Cardinality({s \in Staff(input.staff_list) :
                               Code(r.df, s, d) = rule.shift_code})
                   = rule.exactly_per_day

\* C9: the results of one K-best enumeration are pairwise distinct: any two
\* results of the returned list differ in the shift code of at least one
\* (staff, day) cell, the cuts of all earlier results staying in the model.
C9_PairwiseDistinct ==
    entry = "multi" =>
        \A a, b \in DOMAIN results :
            a < b => \E s \in Staff(input.staff_list), d \in Days(input.num_days) :
                        Code(results[a].df, s, d) # Code(results[b].df, s, d)

\* a K-best enumeration has returned all its k >= 3 tables
C9_Witness == pc = "done" /\ entry = "multi" /\ Len(results) = k /\ k >= 3

\* the successful results among the solver invocations, in the order produced
RECURSIVE SuccessesOf(_)
SuccessesOf(seq) ==
    IF seq = <<>> THEN <<>>
    ELSE LET rest == SuccessesOf(SubSeq(seq, 1, Len(seq) - 1)) IN
         IF seq[Len(seq)].success THEN Append(rest, seq[Len(seq)]) ELSE rest

\* at most k invocations, none after a failed one, and the list is the
\* successes in order
C10_Bounded ==
    entry = "multi" =>
        /\ Len(calls) <= k
        /\ \A j \in 1..(Len(calls) - 1) : calls[j].success
        /\ results = SuccessesOf(calls)
        /\ Len(results) <= k
        /\ (calls # <<>> /\ ~calls[1].success) => results = <<>>
        /\ pc = "done" => (Len(results) = k \/ ~calls[Len(calls)].success)

\* C10: solve_multi(k) always terminates after at most k solver invocations: it
\* stops at the first invocation that is not OPTIMAL/FEASIBLE or after the k-th
\* success and returns exactly the results of the successful invocations in
\* the order produced, so the list has at most k entries and is empty when the
\* first invocation finds no solution (a call whose setup raises never enters
\* solve_multi).
C10_SolveMultiTerminates == [](C10_Bounded) /\ <>(pc \in {"done", "raised"})

\* solve_multi has stopped at a failed invocation that followed a success
C10_Witness ==
    /\ pc = "done" /\ entry = "multi" /\ k = MaxK
    /\ Len(calls) = 2 /\ calls[1].success /\ ~calls[2].success
    /\ Len(results) = 1

\* C11: the list a K-best enumeration returns is ordered best first: the
\* objective value of each result is less than or equal to the objective value
\* of every later result of the list.
C11_BestFirst ==
    entry = "multi" =>
        \A a, b \in DOMAIN results :
            a < b => results[a].objective_value <= results[b].objective_value


\* the tables the no-good cuts of the model exclude
CutTables ==
    {extract_schedule_df(c, input.staff_list, input.num_days, StageShifts) : c \in cuts}

\* the successes of range(k) that are followed by a cut
CutLimit == IF k >= 1 THEN k - 1 ELSE 0

\* C12: a no-good cut is added to the model only after a successful solve that
\* is not the k-th one: with k = 1 no cut is ever added, an enumeration adds at
\* most k - 1 cuts, and each cut is added right after the result it excludes
\* has been recorded, so the cuts exclude exactly the first k - 1 recorded
\* results.
C12_CutsFollowResults ==
    /\ entry = "single" => cuts = {}
    /\ entry = "multi" =>
        /\ k <= 1 => cuts = {}
        /\ Cardinality(cuts) <= CutLimit
        /\ Cardinality(cuts) = Min({Len(results), CutLimit})
        /\ CutTables = {results[j].df : j \in 1..Min({Len(results), CutLimit})}

\* an enumeration with k >= 2 has returned k tables and k - 1 cuts are in the
\* model
C12_Witness ==
    /\ pc = "done" /\ entry = "multi" /\ k >= 2
    /\ Len(results) = k /\ Cardinality(cuts) = k - 1


\* C13: when the first solve of a K-best enumeration finds no solution, the
\* caller of solve_stage1_multi / solve_stage2_multi receives a result whose
\* status is that of the failed solve (INFEASIBLE or UNKNOWN) with an empty
\* assignment, so that it can tell the two outcomes apart.
C13_FailureStatusReturned ==
    (pc = "done" /\ entry = "multi" /\ calls # <<>> /\ ~calls[1].success) =>
        \E r \in Returned :
            /\ r.status \in {"INFEASIBLE", "UNKNOWN"}
            /\ r.status = calls[1].status
            /\ r.df = NoDf


\* the rules of a list that are well formed: their rule_definition and its
\* "rule" payload are mappings and the builder knows their type
WellFormed(constraint) ==
    /\ HasGet(constraint.rule_definition)
    /\ HasGet(get_rule(constraint))
    /\ get_rule_type(constraint) \in {"sequence", "rolling_window", "basic",
                                       "skill_match", "forbidden", "coverage"}

\* C14: an unknown or malformed rule (unknown type, missing or wrongly typed
\* payload, a rule_definition that is not a mapping) never aborts
\* build_constraints: no exception leaves it, and the model that is built is
\* the one of the well-formed rules of the list.
C14_MalformedRuleNeverAborts ==
    /\ pc # "raised"
    /\ pc \in {"loop", "solve", "done"} =>
          model = CpModel(input, SelectSeq(constraints, WellFormed), stage, stage1_df)


\* a map of the problem (name -> day -> value) has an entry whose day is
\* outside 1..num_days
DayOutOfRange(map, num_days) ==
    \E name \in DOMAIN map : \E d \in DOMAIN map[name] : d \notin 1..num_days

\* the problem is invalid: no staff, or a request, forbidden or fixed-cell
\* entry with a day outside 1..num_days
InvalidProblem(inp) ==
    \/ inp.staff_list = <<>>
    \/ DayOutOfRange(inp.requests, inp.num_days)
    \/ DayOutOfRange(inp.ng_shifts, inp.num_days)
    \/ DayOutOfRange(inp.fixed_cells, inp.num_days)

\* C15: an invalid problem (empty staff list, or a request, forbidden or
\* fixed-cell entry whose day is outside 1..num_days) is rejected before any
\* variable or constraint is created: no model is built for it, no solve is
\* run and no result is returned for it.
C15_InvalidInputRejected ==
    InvalidProblem(input) =>
        /\ pc \notin {"loop", "solve", "done"}
        /\ model = {} /\ calls = <<>> /\ results = <<>>


\* the complete assignment of a result table as fixed_cells:
\* {staff name: {day: shift code}}, the last row of a name winning
AsFixedCells(df) ==
    [name \in {df[r].name : r \in DOMAIN df} |->
        LET r == CHOOSE q \in DOMAIN df :
                    /\ df[q].name = name
                    /\ \A p \in DOMAIN df : df[p].name = name => p <= q
        IN df[r].day]

\* the outcomes of the first solve of Stage 2 on the same problem, Stage-1
\* table and rules, with the table df fed back as fixed_cells
RoundTripResults(df) ==
    LET again == [input EXCEPT !.fixed_cells = AsFixedCells(df)] IN
    {SolverResult(o, input.staff_list, input.num_days, all_shifts_of(input),
                  input.day_shifts, input.night_shifts) :
        o \in SolveOutcomes(CpModel(again, constraints, 2, stage1_df), {})}

\* C16: Stage 2 round trip: feeding the complete assignment of a Stage-2 result
\* back as fixed_cells, with the same problem, Stage-1 selection and rules,
\* yields a successful result whose assignment equals the original one cell
\* for cell (a solve that ends at the time limit before any solution is
\* found, status UNKNOWN, yields no assignment at all).
C16_Stage2RoundTrip ==
    (stage = 2 /\ results # <<>> /\ results[Len(results)].success) =>
        LET df == results[Len(results)].df IN
        /\ \E r \in RoundTripResults(df) : r.success
        /\ \A r \in RoundTripResults(df) :
              /\ r.status # "INFEASIBLE"
              /\ r.success => r.df = df

\* Stage 2 has returned a table that the Stage-1 table and the edited cells of
\* the call leave partly open: some cell is pinned by neither
C16_Witness ==
    /\ pc = "done" /\ stage = 2 /\ results # <<>> /\ results[1].success
    /\ Cardinality(model) >= 2
    /\ AsFixedCells(results[1].df) # input.fixed_cells


\* Stage 2 runs on staff A (skill NIGHT) and B over two days, and the selected
\* Stage-1 table has A/1 = Q1 and A/2 = OFF
StagePinning ==
    /\ stage = 2 /\ input.num_days = 2
    /\ Len(input.staff_list) = 2 /\ Len(stage1_df) = 2
    /\ "NIGHT" \in input.staff_list[1].skills
    /\ stage1_df[1].name = input.staff_list[1].name
    /\ stage1_df[1].day = <<"Q1", SHIFT_OFF>>

\* C17: Scenario F: when the selected Stage-1 table has A/1 = Q1 and A/2 = OFF,
\* every Stage-2 result keeps A/1 = Q1 and A/2 = OFF, and the cells of B are
\* left free by the Stage-1 pinning for Stage 2 to assign day shifts to them:
\* the Stage-2 model is the one that pins the row of A alone.
C17_StagePinning ==
    (StagePinning /\ pc \in {"loop", "solve", "done"}) =>
        /\ \A r \in Successes : Code(r.df, 1, 1) = "Q1" /\ Code(r.df, 1, 2) = SHIFT_OFF
        /\ model = CpModel(input, constraints, 2, SubSeq(stage1_df, 1, 1))


\* the days of a row that are off (OFF or PUB)
OffDays(df, s, days) == days \ WorkDays(df, s, days)

\* C18 as stated: Scenario B: with one staff member, num_days = 7,
\* target_off = 0 and max_consecutive_work_days = 5 over one work shift plus
\* OFF, every returned assignment has the staff member working 5 consecutive
\* days and has OFF on day 6 or on day 7.
C18_FiveDaysThenOff ==
    input = WeekInput =>
        \A r \in Successes :
            /\ \E start \in 1..3 : WorkDays(r.df, 1, start..(start + 4)) = start..(start + 4)
            /\ OffDays(r.df, 1, {6, 7}) # {}

\* C18: Scenario B: with one staff member, num_days = 7, target_off = 0 and
\* max_consecutive_work_days = 5 over one work shift plus OFF, every returned
\* assignment has the staff member working at most 5 consecutive days: it has
\* an off day among days 1..6 and an off day among days 2..7.
C18_AtMostFiveConsecutive ==
    input = WeekInput =>
        \A r \in Successes :
            /\ OffDays(r.df, 1, 1..6) # {}
            /\ OffDays(r.df, 1, 2..7) # {}

\* the week has been scheduled with a single off day, on day 3: no run of 5
\* work days, and days 6 and 7 are worked
C18_Witness ==
    /\ input = WeekInput /\ pc = "done"
    /\ \E r \in Successes : r.status = "OPTIMAL" /\ OffDays(r.df, 1, 1..7) = {3}


\* the constraints Stage2Solver.setup posts other than the domain of the
\* shortage variables of _add_daily_coverage
Stage2SetupUncovered(x, inp, df, rules) ==
    LET shifts == all_shifts_of(inp) IN
    /\ _fix_stage1_cells(x, inp, df)
    /\ _fix_edited_cells(x, inp)
    /\ add_exactly_one_shift_per_day(x, inp.staff_list, inp.num_days, shifts)
    /\ add_skill_constraints(x, inp.staff_list, inp.num_days, shifts,
                             SkillMap(inp.night_shifts))
    /\ add_ng_constraints(x, inp.staff_list, inp.num_days, shifts, inp.ng_shifts)
    /\ add_consecutive_work_limit(x, inp.staff_list, inp.num_days, shifts, 5)
    /\ _add_day_shift_balance_domain(x, inp)
    /\ build_constraints(x, rules, inp.staff_list, inp.num_days, shifts,
                         inp.night_shifts, inp)

\* C20: the always-on minimum daily coverage of 3 of Stage 2 is soft for any
\* staff count S >= 1: it only adds 25000 * max(0, 3 - work_d) to the objective
\* for each non-closed day d and never excludes an assignment: every
\* assignment that meets the other constraints of Stage 2 is a solution of
\* the model, so the coverage never makes Stage 2 infeasible.
C20_CoverageIsSoft ==
    (stage = 2 /\ pc \in {"loop", "solve", "done"}) =>
        \A y \in Candidates(input.staff_list, input.num_days, all_shifts_of(input)) :
            Stage2SetupUncovered(y, input, stage1_df, constraints) =>
                \E m \in model :
                    /\ m.val = y
                    /\ m.objective = Stage2Objective(y, input, constraints)


\* pc is past setup: the model has been built
Built == pc \in {"loop", "solve", "done"}

\* the staff working on day d in the assignment x: those whose code is neither
\* OFF nor PUB
Worked(x, d) ==
    {s \in Staff(input.staff_list) :
        AssignedShift(x, s, d, StageShifts) \notin {SHIFT_OFF, SHIFT_PUBLIC_OFF}}

\* max(0, n)
Pos(n) == IF n > 0 THEN n ELSE 0

\* the rule list is one enabled soft coverage rule with min_staff_per_day
SoftMinCoverage ==
    /\ Len(constraints) = 1
    /\ EnabledRules("coverage") # {}
    /\ is_soft(constraints[1])
    /\ "min_staff_per_day" \in DOMAIN get_rule(constraints[1])

\* C21: a soft coverage rule with min_staff_per_day = M and weight w is
\* compiled, for every w >= 0 including w = 0, as the shortage penalty
\* w * max(0, M - work_d) per day and never as the hard constraint
\* work_d >= M: every assignment of the model without the rule is an
\* assignment of the model with it, its objective raised by the penalty.
C21_SoftMinCoverageIsPenalty ==
    (Built /\ SoftMinCoverage) =>
        LET w == constraints[1].penalty_weight
            M == get_rule(constraints[1]).min_staff_per_day
        IN \A m0 \in CpModel(input, <<>>, stage, stage1_df) :
              \E m \in model :
                  /\ m.val = m0.val
                  /\ m.objective = m0.objective
                        + SumFn([d \in Days(input.num_days) |->
                                   w * Pos(M - Cardinality(Worked(m0.val, d)))],
                                Days(input.num_days))


\* the rule list is the enabled rule maximize_request_satisfaction
RequestRule ==
    /\ Len(constraints) = 1
    /\ EnabledRules("preference") # {}
    /\ GetBool(get_rule(constraints[1]), "maximize_request_satisfaction")

\* the requests (s, d) -> code, d in range and code in the alphabet of the
\* stage, that the assignment x does not meet
MissedRequests(x) ==
    {c \in Staff(input.staff_list) \X Days(input.num_days) :
        LET staff_req == Get(input.requests, input.staff_list[c[1]].name, <<>>) IN
        /\ c[2] \in DOMAIN staff_req
        /\ InShifts(StageShifts, staff_req[c[2]])
        /\ Value(x, c[1], c[2], ShiftToIdx(StageShifts, staff_req[c[2]])) = 0}

\* C24: under the enabled preference rule maximize_request_satisfaction of
\* weight w, in both stages, every request with its day in range and its code
\* in the alphabet of the stage adds exactly w to the objective when it is
\* missed and 0 when it is met: the objective of an assignment is its
\* objective on the problem without requests plus w per missed request.
C24_RequestCostsRuleWeight ==
    (Built /\ RequestRule) =>
        LET w == constraints[1].penalty_weight IN
        \A m \in model :
            \E m0 \in CpModel([input EXCEPT !.requests = <<>>], constraints,
                               stage, stage1_df) :
                /\ m0.val = m.val
                /\ m.objective = m0.objective + w * Cardinality(MissedRequests(m.val))

\* the rule list is one enabled soft balance rule or weekend preference rule
SoftBalanceOrWeekendRule ==
    /\ Len(constraints) = 1
    /\ is_soft(constraints[1])
    /\ \/ EnabledRules("balance") # {}
       \/ /\ EnabledRules("preference") # {}
          /\ GetBool(get_rule(constraints[1]), "prefer_full_weekend_off_or_work")

\* C25: a soft balance rule or weekend preference rule whose weight is 0
\* contributes 0 to the objective (the coefficient is the weight of the rule,
\* never a built-in default): every assignment has the objective it has
\* without the rule.
C25_ZeroWeightContributesNothing ==
    (Built /\ SoftBalanceOrWeekendRule /\ constraints[1].penalty_weight = 0) =>
        \A m \in model :
            \E m0 \in CpModel(input, <<>>, stage, stage1_df) :
                m0.val = m.val /\ m0.objective = m.objective

\* prev_history of staff s
History(s) == Get(input.prev_history, input.staff_list[s].name, <<>>)

\* the staff whose last history entry is a night shift
AfterNight ==
    {s \in Staff(input.staff_list) :
        /\ Len(History(s)) >= 1
        /\ History(s)[Len(History(s))] \in Range(input.night_shifts)}

\* C26: a staff member whose last prev_history entry is a night shift has OFF
\* on day 1 in every result of Stage 1, for a history of any length >= 1.
C26_OffAfterHistoryNight ==
    stage = 1 =>
        \A r \in Successes : \A s \in AfterNight : Code(r.df, s, 1) = SHIFT_OFF

\* Stage 1 has returned a table for a staff member whose history is the one
\* entry Q1, and another whose history of three entries ends with Q1
C26_Witness ==
    /\ stage = 1 /\ pc = "done" /\ Successes # {} /\ AfterNight # {}
    /\ \E s \in AfterNight : Len(History(s)) \in {1, 3}
    /\ \A r \in Successes : \E s \in AfterNight : Code(r.df, s, 1) = SHIFT_OFF

\* the number of worked days the row of s starts with
LeadingWork(df, s) ==
    Cardinality({d \in Days(input.num_days) : WorkDays(df, s, 1..d) = 1..d})

\* C29: the consecutive-work cap carries over the month boundary: counting
\* the worked days at the tail of a prev_history of 3 entries together with
\* the first days of the month, no result of Stage 1 lets a staff member work
\* more than 5 days in a row.
C29_CapCarriesOverMonthBoundary ==
    stage = 1 =>
        \A r \in Successes : \A s \in Staff(input.staff_list) :
            Len(History(s)) = 3 =>
                ConsecutiveWork(History(s)) + LeadingWork(r.df, s) <= 5

\* Stage 2 runs on a table of Stage 1 and L1 is one of day_shifts
AllPinned == stage = 2 /\ "L1" \in Range(input.day_shifts)

C28_BuiltInCapOfFive ==
    \A r \in Successes :
        \A s \in Staff(input.staff_list), start \in 1..(input.num_days - 5) :
            Cardinality(WorkDays(r.df, s, start..(start + 5))) <= 5

\* the week was scheduled by Stage 1 under a rolling-window rule of 6 days
\* with 6 worked days out of 7
C28_Witness ==
    /\ input.num_days = 7 /\ pc = "done" /\ stage = 1
    /\ constraints = <<RollingWindow(TRUE, 6)>>
    /\ \E r \in Successes : Cardinality(WorkDays(r.df, 1, 1..7)) = 6

\* C30: in every result, each staff row has off_days = the number of its
\* cells holding OFF or PUB_OFF and off_days + work_days = num_days; for
\* every day the work count of the summary is the number of staff whose cell
\* is neither OFF nor PUB_OFF, and the per-code counts of the day sum to the
\* number of staff.
C30_DerivedCounts ==
    \A r \in Successes :
        /\ \A s \in Staff(input.staff_list) :
              /\ r.df[s].off_days = Cardinality(OffDays(r.df, s, Days(input.num_days)))
              /\ r.df[s].off_days + r.df[s].work_days = input.num_days
        /\ \A d \in Days(input.num_days) :
              /\ r.summary_df[d].work
                    = Cardinality({s \in Staff(input.staff_list) :
                                     Code(r.df, s, d) \notin {SHIFT_OFF, SHIFT_PUBLIC_OFF}})
              /\ SumFn(r.summary_df[d].counts, DOMAIN r.summary_df[d].counts)
                    = Len(input.staff_list)

\* a result of two staff members with, on one day, one at work and one on
\* PUB_OFF
C30_Witness ==
    /\ pc = "done" /\ Len(input.staff_list) = 2
    /\ \E r \in Successes : \E d \in Days(input.num_days) :
          /\ r.summary_df[d].work = 1
          /\ r.summary_df[d].counts[SHIFT_PUBLIC_OFF] = 1
          /\ Code(r.df, 2, d) = SHIFT_PUBLIC_OFF
          /\ r.df[2].off_days >= 1 /\ r.df[1].work_days >= 1

\* the hard rules of the rule list
HardRules == SelectSeq(constraints, LAMBDA c : ~is_soft(c))

\* the assignment y satisfies the hard constraints of the stage: every
\* constraint of setup other than the soft terms of the objective
HardFeasible(y) ==
    LET inp == input
        shifts == StageShifts
    IN /\ add_exactly_one_shift_per_day(y, inp.staff_list, inp.num_days, shifts)
       /\ add_skill_constraints(y, inp.staff_list, inp.num_days, shifts,
                                SkillMap(inp.night_shifts))
       /\ add_ng_constraints(y, inp.staff_list, inp.num_days, shifts, inp.ng_shifts)
       /\ add_consecutive_work_limit(y, inp.staff_list, inp.num_days, shifts, 5)
       /\ build_constraints(y, HardRules, inp.staff_list, inp.num_days, shifts,
                            inp.night_shifts, inp)
       /\ IF stage = 1
          THEN /\ add_night_off_constraint(y, inp.staff_list, inp.num_days, shifts,
                                           inp.night_shifts)
               /\ _add_prev_history_constraints(y, inp)
          ELSE /\ _fix_stage1_cells(y, inp, stage1_df)
               /\ _fix_edited_cells(y, inp)

\* the assignments of the stage that satisfy its hard constraints
HardFeasibleSet ==
    {y \in Candidates(input.staff_list, input.num_days, StageShifts) : HardFeasible(y)}

\* C22: for a balance term among eligible staff E with |E| >= 2 (rule
\* balance_shifts, Stage-1 night balance, Stage-2 day-shift balance) every
\* assignment that satisfies the hard constraints stays feasible, for every
\* distribution of the counts: the constraints the term posts hold of it.
C22_BalanceExcludesNothing ==
    Built =>
        \A y \in HardFeasibleSet :
            /\ stage = 1 => _add_night_balance_constraint_domain(y, input)
            /\ stage = 2 => _add_day_shift_balance_domain(y, input)
            /\ \A c \in EnabledRules("balance") :
                  GetSeq(get_rule(c), "balance_shifts") =>
                      _add_shift_balance(y, input.staff_list, input.num_days, StageShifts,
                                         get_rule(c).balance_shifts, get_rule(c))


\* C23: for every staff member with any target_off T >= 0 and any
\* num_days >= 1 the target-off term (the built-in term of Stage 1 and the
\* rule target_off_days_field) excludes no assignment that satisfies the hard
\* constraints, also when T exceeds num_days: the constraints the term posts
\* hold of every such assignment, and it adds weight * |off_total[s] - T|.
C23_TargetOffExcludesNothing ==
    Built =>
        \A y \in HardFeasibleSet :
            /\ stage = 1 =>
                  add_target_off_soft_constraint_domain(y, input.staff_list,
                                                        input.num_days, StageShifts)
            /\ \A c \in EnabledRules("balance") :
                  GetStr(get_rule(c), "target_off_days_field") =>
                      _add_target_off_balance(y, input.staff_list, input.num_days,
                                              StageShifts)

====
